---------------------------- MODULE Spec2Model ----------------------------
(***************************************************************************)
(* NEOs_Monitoring_System: the CSV ingestion pipeline of                   *)
(* "Apps Py/app_sql_client.py" (load_neo_mpcorb_csv and the upsert/merge   *)
(* helpers it calls) and the header normalizer shared with generate_sql.   *)
(*                                                                         *)
(* Values.  A nullable value is NULL (the empty tuple) or Some(x) = <<x>>. *)
(* A text is a sequence of tokens (one-character strings, or longer        *)
(* tokens that never need to be split); "" is the empty sequence.  A       *)
(* table is a set of rows, a row is a function from column names to        *)
(* nullable values.                                                        *)
(***************************************************************************)
EXTENDS Integers, Sequences, FiniteSets, TLC

VARIABLES
    asteroid,       \* table Asteroid (the connection's view of it)
    orbit,          \* table Orbit
    class_orbital,  \* table Class_Orbital
    load_error,     \* table Load_Error: NULL when the table does not exist, else
                    \* Some(number of rows written to it)
    collation,      \* TRUE when the database collation is case-insensitive
    run,            \* locals of load_neo_mpcorb_csv, one record per run
    last,           \* the last call made: its arguments and what it returned
    hdr,            \* header normalizer: its input list and its output
    gen,            \* locals of generate_sql.build_data_from_csv
    call,           \* a call of a pure helper: its argument and its outcome
    gui,            \* the window: worker threads, the queue, widget accesses
    neo_csv,        \* locals of insercao_csv.load_neo_csv
    mpcorb          \* mpcorb_loader.load_mpcorb: its locals and its connection

vars == <<asteroid, orbit, class_orbital, load_error, collation, run, last, hdr,
          gen, call, gui, neo_csv, mpcorb>>

NULL == <<>>
Some(x) == <<x>>
EMPTY == <<>>

----------------------------------------------------------------------------
(* Text helpers: str.lower(), str.upper(), str.strip().                    *)

LowerTok(t) ==
    CASE t = "A" -> "a"
      [] t = "B" -> "b"
      [] t = "EPOCH" -> "epoch"
      [] t = "NULL" -> "null"
      [] t = "2020 AB" -> "2020 ab"
      [] OTHER -> t

UpperTok(t) ==
    CASE t = "a" -> "A"
      [] t = "b" -> "B"
      [] t = "epoch" -> "EPOCH"
      [] t = "null" -> "NULL"
      [] t = "2020 ab" -> "2020 AB"
      [] OTHER -> t

Lower(s) == [k \in DOMAIN s |-> LowerTok(s[k])]
Upper(s) == [k \in DOMAIN s |-> UpperTok(s[k])]

RECURSIVE LStrip(_)
LStrip(s) == IF s # <<>> /\ Head(s) = " " THEN LStrip(Tail(s)) ELSE s

RECURSIVE RStrip(_)
RStrip(s) ==
    IF s # <<>> /\ s[Len(s)] = " " THEN RStrip(SubSeq(s, 1, Len(s) - 1)) ELSE s

Strip(s) == RStrip(LStrip(s))

\* norm_text: None stays None; strip; "" and "NULL" (any case) become None.
NormText(x) ==
    IF x = NULL THEN NULL
    ELSE LET v == Strip(x[1])
         IN IF v = EMPTY \/ Upper(v) = <<"NULL">> THEN NULL ELSE Some(v)

----------------------------------------------------------------------------
(* SQL expressions used by the UPDATE statements.                          *)

\* A variant that prefers the incoming value: COALESCE(?, col)
CoalesceOverwrite(cur, new) == IF new # NULL THEN new ELSE cur
\* COALESCE(col, ?)
Coalesce(cur, new) == IF cur # NULL THEN cur ELSE new

\* NULLIF(?, '')
NullIfEmpty(p) == IF p = Some(EMPTY) THEN NULL ELSE p

\* CASE WHEN col IS NULL OR col = '' THEN NULLIF(?, '') ELSE col END
FillText(cur, p) ==
    IF cur = NULL \/ cur = Some(EMPTY) THEN NullIfEmpty(p) ELSE cur

\* CASE WHEN col IS NULL OR col = '' THEN COALESCE(NULLIF(?, ''), '') ELSE col END
FillPrefix(cur, p) ==
    IF cur = NULL \/ cur = Some(EMPTY)
    THEN Coalesce(NullIfEmpty(p), Some(EMPTY))
    ELSE cur

\* col = ? on a text column: never true for NULL; the comparison follows the
\* database collation (case-insensitive on a default SQL Server install).
SqlTextEq(ci, col, p) ==
    /\ col # NULL
    /\ p # NULL
    /\ IF ci THEN Lower(col[1]) = Lower(p[1]) ELSE col[1] = p[1]

\* col = ? on a numeric column.
SqlNumEq(col, p) == col # NULL /\ p # NULL /\ col[1] = p[1]

----------------------------------------------------------------------------
(* Table Asteroid and upsert_asteroid.                                     *)

AstTextCols == {"full_name", "pdes", "name", "neo_flag", "pha_flag"}
AstNumCols == {"diameter", "absolute_magnitude", "albedo", "diameter_sigma"}
AstCols == {"id_internal", "spkid", "neo_id", "prefix"} \cup AstTextCols \cup AstNumCols

\* The SET list of both UPDATE statements; fillKey is the key column the
\* statement fills (neo_id when the row was found by spkid, spkid when it was
\* found by neo_id), the other key column is not in the SET list.
AsteroidSet(row, p, fillKey) ==
    [c \in AstCols |->
        CASE c = fillKey -> Coalesce(row[c], p[c])
          [] c \in AstTextCols -> FillText(row[c], p[c])
          [] c = "prefix" -> FillPrefix(row[c], p[c])
          [] c \in AstNumCols -> Coalesce(row[c], p[c])
          [] OTHER -> row[c]]

\* The VALUES list of the INSERT: h defaults to 0.0.
AsteroidValues(p) ==
    [c \in AstCols |->
        IF c = "absolute_magnitude" /\ p[c] = NULL THEN Some(<<0, 1>>) ELSE p[c]]

\* Constraints the statements are checked against: id_internal is the primary
\* key and neo_id is UNIQUE (the comment at upsert_asteroid's second lookup).
AsteroidKeysOk(ci, tbl) ==
    \A r1, r2 \in tbl :
        r1 # r2 =>
            /\ r1["id_internal"] # r2["id_internal"]
            /\ ~SqlTextEq(ci, r1["neo_id"], r2["neo_id"])

\* upsert_asteroid(cur, id_internal, neo_id, spkid, ...): p holds the
\* arguments by column name.  Returns the table and "update" or "insert";
\* "raise" when the statement violates a constraint (the table is unchanged).
UpsertAsteroid(ci, tbl, p) ==
    LET bySpk == {r \in tbl : SqlNumEq(r["spkid"], p["spkid"])}
        byNeo == {r \in tbl : SqlTextEq(ci, r["neo_id"], p["neo_id"])}
        upd(hit, fillKey) ==
            LET t == (tbl \ hit) \cup {AsteroidSet(r, p, fillKey) : r \in hit}
            IN  IF AsteroidKeysOk(ci, t)
                THEN [tbl |-> t, action |-> "update"]
                ELSE [tbl |-> tbl, action |-> "raise"]
        new == AsteroidValues(p)
        clash ==
            \E r \in tbl :
                \/ r["id_internal"] = new["id_internal"]
                \/ SqlTextEq(ci, r["neo_id"], new["neo_id"])
    IN  IF bySpk # {} THEN upd(bySpk, "neo_id")
        ELSE IF byNeo # {} THEN upd(byNeo, "spkid")
        ELSE IF clash THEN [tbl |-> tbl, action |-> "raise"]
        ELSE [tbl |-> tbl \cup {new}, action |-> "insert"]

----------------------------------------------------------------------------
(* Table Class_Orbital and upsert_class.                                   *)

\* A variant that stores the description of the call over the one held.
UpsertClassReplace(ci, tbl, cls, desc) ==
    IF cls = EMPTY THEN tbl
    ELSE {r \in tbl : ~SqlTextEq(ci, Some(r.class), Some(cls))}
         \cup {[class |-> cls,
                 class_description |-> IF desc # EMPTY THEN desc ELSE cls]}

\* upsert_class(cur, cls, desc): cls and desc are texts (never None).
UpsertClass(ci, tbl, cls, desc) ==
    IF cls = EMPTY THEN tbl
    ELSE IF \E r \in tbl : SqlTextEq(ci, Some(r.class), Some(cls)) THEN tbl
    ELSE tbl \cup {[class |-> cls,
                    class_description |-> IF desc # EMPTY THEN desc ELSE cls]}

----------------------------------------------------------------------------
(* Table Orbit and insert_orbit_if_new.                                    *)

\* Columns the INSERT stores as 0.0 when the argument is missing.
OrbZeroCols == {"epoch", "rms", "moid_ld", "tp", "per", "per_y", "e", "a", "q",
                "i", "om", "w", "ma", "ad", "n", "moid"}
\* Columns the INSERT stores as given.
OrbSigmaCols == {"sigma_e", "sigma_a", "sigma_q", "sigma_i", "sigma_n",
                 "sigma_ma", "sigma_om", "sigma_w", "sigma_ad", "sigma_tp",
                 "sigma_per"}
OrbPlainCols == {"epoch_mjd", "epoch_cal", "orbit_uncertainty", "condition_code",
                 "id_internal"} \cup OrbSigmaCols
OrbTextCols == {"equinox", "class"}
OrbCols == {"id_orbita", "tp_cal"} \cup OrbZeroCols \cup OrbPlainCols \cup OrbTextCols

\* date.today()
Today == <<2026, 1, 15>>

NEA == <<"NEA">>
J2000 == <<"J2000">>
NearEarthAsteroid == <<"Near Earth Asteroid">>

\* epoch_val = epoch if epoch is not None else epoch_mjd
EpochVal(p) == IF p["epoch"] # NULL THEN p["epoch"] ELSE p["epoch_mjd"]

\* A variant that passes the argument on as given.
OrZeroAsGiven(x) == x

\* x or 0.0
OrZero(x) == IF x = NULL \/ x[1][1] = 0 THEN Some(<<0, 1>>) ELSE x

\* A variant SET list that overwrites: col = COALESCE(?, col)
OrbitSetOverwrite(row, p) ==
    [c \in OrbCols |->
        IF c = "id_orbita" THEN row[c] ELSE CoalesceOverwrite(row[c], p[c])]
\* The SET list of the UPDATE.
OrbitSet(row, p) ==
    [c \in OrbCols |->
        CASE c = "id_orbita" -> row[c]
          [] c = "epoch" -> Coalesce(row[c], EpochVal(p))
          [] c \in OrbTextCols -> FillText(row[c], p[c])
          [] OTHER -> Coalesce(row[c], p[c])]

\* The VALUES list of the INSERT (after cls and tp_cal were defaulted).
OrbitValues(p) ==
    [c \in OrbCols |->
        CASE c = "epoch" -> IF EpochVal(p) # NULL THEN EpochVal(p) ELSE Some(<<0, 1>>)
          [] c \in OrbZeroCols -> OrZero(p[c])
          [] c = "equinox" -> IF p[c] = NULL \/ p[c] = Some(EMPTY) THEN Some(J2000) ELSE p[c]
          [] c = "class" -> IF p[c] = NULL \/ p[c] = Some(EMPTY) THEN Some(NEA) ELSE p[c]
          [] c = "tp_cal" -> IF p[c] # NULL THEN p[c]
                             ELSE IF p["epoch_cal"] # NULL THEN p["epoch_cal"]
                             ELSE Some(Today)
          [] OTHER -> p[c]]

\* A variant without the ownership guard.
OwnedByOtherNever(existing_id, id_internal) == FALSE
\* The guard of the "[WARN] ... skip update" branch.
OwnedByOther(existing_id, id_internal) ==
    existing_id # NULL /\ id_internal # NULL /\ existing_id[1] # id_internal[1]

\* insert_orbit_if_new(cur, orbit_id, id_internal, cls, ...): p holds the
\* arguments by column name (orbit_id as id_orbita, cls as class, inc as i).
\* Returns the tables, the boolean the function returns and which branch ran.
InsertOrbitIfNew(ci, orb, cls, p) ==
    LET hit == {r \in orb : SqlTextEq(ci, r["id_orbita"], p["id_orbita"])}
        noCls == p["class"] = NULL \/ p["class"] = Some(EMPTY)
    IN  IF hit # {}
        THEN IF \E r \in hit : OwnedByOther(r["id_internal"], p["id_internal"])
             THEN [orbit |-> orb, class_orbital |-> cls, inserted |-> FALSE,
                   branch |-> "skip"]
             ELSE [orbit |-> (orb \ hit) \cup {OrbitSet(r, p) : r \in hit},
                   class_orbital |-> cls, inserted |-> FALSE, branch |-> "update"]
        ELSE [orbit |-> orb \cup {OrbitValues(p)},
              class_orbital |-> IF noCls THEN UpsertClass(ci, cls, NEA, NearEarthAsteroid)
                                ELSE cls,
              inserted |-> TRUE, branch |-> "insert"]

----------------------------------------------------------------------------
(* Numbers.  A Python float is an exact rational <<num, den>>, den > 0, in *)
(* lowest terms; an int is an integer.                                     *)

Abs(x) == IF x < 0 THEN -x ELSE x

RECURSIVE Gcd(_, _)
Gcd(x, y) == IF y = 0 THEN x ELSE Gcd(y, x % y)

Rat(n, d) ==
    LET g == Gcd(Abs(n), Abs(d))
        sg == IF d < 0 THEN -1 ELSE 1
    IN  <<(sg * n) \div g, (sg * d) \div g>>

F(n) == <<n, 1>>
RAdd(x, y) == Rat(x[1] * y[2] + y[1] * x[2], x[2] * y[2])
RSub(x, y) == Rat(x[1] * y[2] - y[1] * x[2], x[2] * y[2])
RMul(x, y) == Rat(x[1] * y[1], x[2] * y[2])
RDiv(x, y) == Rat(x[1] * y[2], x[2] * y[1])
\* int(x): truncation toward zero
RTrunc(x) == IF x[1] >= 0 THEN x[1] \div x[2] ELSE -((-x[1]) \div x[2])
\* truthiness of an Optional[float]: None and 0.0 are false
Truthy(x) == x # NULL /\ x[1][1] # 0

JdOffset == <<4800001, 2>>      \* 2400000.5
DaysPerYear == <<1461, 4>>      \* 365.25

----------------------------------------------------------------------------
(* datetime.date: a date is <<year, month, day>>; ordinals as in CPython's  *)
(* _ymd2ord and _ord2ymd (proleptic Gregorian, 0001-01-01 is day 1).       *)

IsLeap(y) == y % 4 = 0 /\ (y % 100 # 0 \/ y % 400 = 0)

DaysInMonth(y, m) ==
    CASE m \in {1, 3, 5, 7, 8, 10, 12} -> 31
      [] m \in {4, 6, 9, 11} -> 30
      [] OTHER -> IF IsLeap(y) THEN 29 ELSE 28

RECURSIVE DaysBeforeMonth(_, _)
DaysBeforeMonth(y, m) ==
    IF m = 1 THEN 0 ELSE DaysBeforeMonth(y, m - 1) + DaysInMonth(y, m - 1)

DaysBeforeYear(y) ==
    (y - 1) * 365 + ((y - 1) \div 4) - ((y - 1) \div 100) + ((y - 1) \div 400)

\* date(y, m, d) raises ValueError unless this holds.
ValidDate(y, m, d) ==
    y \in 1..9999 /\ m \in 1..12 /\ d >= 1 /\ d <= DaysInMonth(y, m)

ToOrdinal(dt) == DaysBeforeYear(dt[1]) + DaysBeforeMonth(dt[1], dt[2]) + dt[3]

RECURSIVE MonthOf(_, _, _)
MonthOf(y, m, n) ==
    IF n < DaysInMonth(y, m) THEN <<y, m, n + 1>>
    ELSE MonthOf(y, m + 1, n - DaysInMonth(y, m))

FromOrdinal(o) ==
    LET n == o - 1
        n400 == n \div 146097
        r400 == n % 146097
        n100 == r400 \div 36524
        r100 == r400 % 36524
        n4 == r100 \div 1461
        r4 == r100 % 1461
        n1 == r4 \div 365
        r1 == r4 % 365
        y == n400 * 400 + n100 * 100 + n4 * 4 + n1 + 1
    IN  IF n1 = 4 \/ n100 = 4 THEN <<y - 1, 12, 31>> ELSE MonthOf(y, 1, r1)

\* date.max.toordinal()
MaxOrdinal == ToOrdinal(<<9999, 12, 31>>)
Mjd0 == <<1858, 11, 17>>

\* A variant that counts the day 1858-11-17 itself as day one.
DateToMjdFromOne(dt) == F(ToOrdinal(dt) - ToOrdinal(Mjd0) + 1)

\* date_to_mjd(d) = float((d - mjd0).days)
DateToMjd(dt) == F(ToOrdinal(dt) - ToOrdinal(Mjd0))

\* mjd_to_date(mjd) = mjd0 + timedelta(days=int(mjd)); OverflowError when the
\* result is not a date.
MjdToDateRaises(mjd) ==
    LET o == ToOrdinal(Mjd0) + RTrunc(mjd) IN o < 1 \/ o > MaxOrdinal
MjdToDate(mjd) == FromOrdinal(ToOrdinal(Mjd0) + RTrunc(mjd))

----------------------------------------------------------------------------
(* Field parsers.  A CSV cell is a text; row.get(f) is NULL or Some(text). *)

\* float(x) for the numeric literals the inputs use; every other text makes
\* float() raise ValueError, which parse_float and parse_int catch.
IsFloatLit(t) ==
    t \in {"0", "1", "2", "3", "5", "10", "12", "99", "360", "0.5", "3.0", "2.5",
           "2460000.5", "1e-6", "12345"}
FloatLit(t) ==
    CASE t = "0" -> F(0)
      [] t = "1" -> F(1)
      [] t = "2" -> F(2)
      [] t = "3" -> F(3)
      [] t = "5" -> F(5)
      [] t = "10" -> F(10)
      [] t = "12" -> F(12)
      [] t = "99" -> F(99)
      [] t = "360" -> F(360)
      [] t = "0.5" -> <<1, 2>>
      [] t = "3.0" -> F(3)
      [] t = "2.5" -> <<5, 2>>
      [] t = "2460000.5" -> <<4920001, 2>>
      [] t = "1e-6" -> <<1, 1000000>>
      [] t = "12345" -> F(12345)

\* x or ""
OrEmpty(x) == IF x = NULL THEN EMPTY ELSE x[1]

\* parse_float(x)
ParseFloat(cell) ==
    LET x == Strip(cell)
    IN  IF x = EMPTY \/ Upper(x) = <<"NULL">> THEN NULL
        ELSE IF Len(x) = 1 /\ IsFloatLit(x[1]) THEN Some(FloatLit(x[1]))
        ELSE NULL

\* parse_int(x) = int(float(x))
ParseInt(cell) ==
    LET f == ParseFloat(cell) IN IF f = NULL THEN NULL ELSE Some(RTrunc(f[1]))

\* datetime.strptime for the date literals the inputs use: YYYYMMDD (with or
\* without a fraction) and the three delimited formats; a literal that names
\* no calendar date, or any other text, parses to None.
IsDateLit(t) == t \in {"20200101", "20200101.5", "2020-01-01", "01/02/2020", "2021/03/04"}
DateLit(t) ==
    CASE t = "20200101" -> <<2020, 1, 1>>
      [] t = "20200101.5" -> <<2020, 1, 1>>
      [] t = "2020-01-01" -> <<2020, 1, 1>>
      [] t = "01/02/2020" -> <<2020, 2, 1>>
      [] t = "2021/03/04" -> <<2021, 3, 4>>

\* parse_date(x)
ParseDate(cell) ==
    LET x == Strip(cell)
    IN  IF x = EMPTY \/ Upper(x) = <<"NULL">> THEN NULL
        ELSE IF Len(x) = 1 /\ IsDateLit(x[1]) THEN Some(DateLit(x[1]))
        ELSE NULL

\* str.isdigit() is true of the ASCII digits and of other Unicode digits such
\* as the superscript two (written sup2), on which int() raises ValueError.
AsciiDigits == <<"0", "1", "2", "3", "4", "5", "6", "7", "8", "9">>
IsAsciiDigit(ch) == \E k \in DOMAIN AsciiDigits : AsciiDigits[k] = ch
IsDigit(ch) == IsAsciiDigit(ch) \/ ch = "sup2"
DigitVal(ch) == (CHOOSE k \in DOMAIN AsciiDigits : AsciiDigits[k] = ch) - 1

Alphabet == <<"A", "B", "C", "D", "E", "F", "G", "H", "I", "J", "K", "L", "M",
              "N", "O", "P", "Q", "R", "S", "T", "U", "V", "W", "X", "Y", "Z">>
InAlphabet(ch) == \E k \in DOMAIN Alphabet : Alphabet[k] = ch
AlphabetIndex(ch) == (CHOOSE k \in DOMAIN Alphabet : Alphabet[k] = ch) - 1

IsCentury(c) == c \in {"I", "J", "K"}
CenturyMap(c) == CASE c = "I" -> 1800 [] c = "J" -> 1900 [] c = "K" -> 2000

\* decode_md(ch): 0 stands for None (the caller tests "not month").
DecodeMd(ch) ==
    IF IsDigit(ch) THEN (IF DigitVal(ch) >= 1 THEN DigitVal(ch) ELSE 0)
    ELSE IF InAlphabet(ch) THEN 10 + AlphabetIndex(ch)
    ELSE 0

\* mpc_packed_to_date(packed) raises (ValueError from int()) in these cases.
MpcPackedRaises(cell) ==
    LET packed == Strip(cell)
    IN  /\ Len(packed) = 5
        /\ IsCentury(packed[1])
        /\ IsDigit(packed[2]) /\ IsDigit(packed[3])
        /\ \/ ~IsAsciiDigit(packed[2]) \/ ~IsAsciiDigit(packed[3])
           \/ (IsDigit(packed[4]) /\ ~IsAsciiDigit(packed[4]))
           \/ (IsDigit(packed[5]) /\ ~IsAsciiDigit(packed[5])
               /\ ~(IsDigit(packed[4]) /\ ~IsAsciiDigit(packed[4])))

\* mpc_packed_to_date(packed), when it does not raise.
MpcPackedToDate(cell) ==
    LET packed == Strip(cell)
    IN  IF Len(packed) # 5 THEN NULL
        ELSE IF ~IsCentury(packed[1]) \/ ~(IsDigit(packed[2]) /\ IsDigit(packed[3]))
        THEN NULL
        ELSE LET year == CenturyMap(packed[1]) + 10 * DigitVal(packed[2])
                         + DigitVal(packed[3])
                 month == DecodeMd(packed[4])
                 day == DecodeMd(packed[5])
             IN  IF month = 0 \/ day = 0 THEN NULL
                 ELSE IF ValidDate(year, month, day) THEN Some(<<year, month, day>>)
                 ELSE NULL

----------------------------------------------------------------------------
(* load_neo_mpcorb_csv: what it reads from the database before the loop.   *)

\* str(n) for n >= 0, one token per digit, and int(s) of a digit string.
RECURSIVE IntStr(_)
IntStr(n) ==
    IF n < 10 THEN <<AsciiDigits[n + 1]>>
    ELSE IntStr(n \div 10) \o <<AsciiDigits[(n % 10) + 1]>>

RECURSIVE IntOf(_)
IntOf(s) ==
    IF s = <<>> THEN 0 ELSE 10 * IntOf(SubSeq(s, 1, Len(s) - 1)) + DigitVal(s[Len(s)])

AllAsciiDigits(s) == \A k \in DOMAIN s : IsAsciiDigit(s[k])

Ids(tbl) == {r["id_internal"][1] : r \in tbl}

RECURSIVE SetMax(_)
SetMax(S) ==
    LET x == CHOOSE x \in S : TRUE
    IN  IF S = {x} THEN x
        ELSE LET m == SetMax(S \ {x}) IN IF x > m THEN x ELSE m

\* ISNULL(MAX(col), 0)
MaxOrZero(S) == IF S = {} THEN 0 ELSE SetMax(S)

\* A variant that returns the largest stored key itself.
GetNextIdInternalNoIncr(tbl) == MaxOrZero(Ids(tbl))
\* get_next_id_internal(cur)
GetNextIdInternal(tbl) == MaxOrZero(Ids(tbl)) + 1

\* TRY_CONVERT(int, SUBSTRING(id_orbita, 4, 50)) of an id LIKE 'MPC%'
MpcSuffix(ci, id) ==
    IF id # EMPTY /\ (id[1] = "MPC" \/ (ci /\ Upper(<<id[1]>>) = <<"MPC">>))
       /\ Len(id) >= 2 /\ AllAsciiDigits(Tail(id))
    THEN {IntOf(Tail(id))}
    ELSE {}

\* get_next_mpc_seq(cur)
GetNextMpcSeq(ci, tbl) ==
    MaxOrZero(UNION {MpcSuffix(ci, r["id_orbita"][1]) : r \in tbl}) + 1

\* load_existing_maps(cur): the keys of both maps, and the rows that can own
\* each key (on a duplicate key the row fetched last wins, and the SELECT has
\* no ORDER BY).
NeoKeyOf(r) == Lower(Strip(r["neo_id"][1]))
NeoKeys(tbl) == {NeoKeyOf(r) : r \in {x \in tbl : x["neo_id"] # NULL}}
SpkKeys(tbl) == {r["spkid"][1] : r \in {x \in tbl : x["spkid"] # NULL}}
NeoOwners(tbl, k) ==
    {r["id_internal"][1] : r \in {x \in tbl : x["neo_id"] # NULL /\ NeoKeyOf(x) = k}}
SpkOwners(tbl, k) ==
    {r["id_internal"][1] : r \in {x \in tbl : x["spkid"] = Some(k)}}
NeoMaps(tbl) ==
    {m \in [NeoKeys(tbl) -> Ids(tbl)] : \A k \in NeoKeys(tbl) : m[k] \in NeoOwners(tbl, k)}
SpkMaps(tbl) ==
    {m \in [SpkKeys(tbl) -> Ids(tbl)] : \A k \in SpkKeys(tbl) : m[k] \in SpkOwners(tbl, k)}

----------------------------------------------------------------------------
(* The identity resolver (the id_internal block of the row loop).          *)

MapPut(m, k, v) == [x \in DOMAIN m \cup {k} |-> IF x = k THEN v ELSE m[x]]

\* A variant that adopts the key found by SPK-id without registering the
\* row's id in neo_map.
ResolveNoRegister(nm, sm, nid, neo_key, spkid) ==
    IF neo_key # NULL /\ neo_key[1] \in DOMAIN nm
    THEN [id |-> Some(nm[neo_key[1]]), neo_map |-> nm, spk_map |-> sm,
          next_id |-> nid, minted |-> FALSE]
    ELSE IF spkid # NULL /\ spkid[1] \in DOMAIN sm
    THEN [id |-> Some(sm[spkid[1]]), neo_map |-> nm, spk_map |-> sm,
          next_id |-> nid, minted |-> FALSE]
    ELSE IF neo_key = NULL /\ spkid = NULL
    THEN [id |-> NULL, neo_map |-> nm, spk_map |-> sm, next_id |-> nid,
          minted |-> FALSE]
    ELSE [id |-> Some(nid),
          neo_map |-> IF neo_key # NULL THEN MapPut(nm, neo_key[1], nid) ELSE nm,
          spk_map |-> IF spkid # NULL THEN MapPut(sm, spkid[1], nid) ELSE sm,
          next_id |-> nid + 1, minted |-> TRUE]

\* A variant whose counter advances by two on each mint.
ResolveSkip(nm, sm, nid, neo_key, spkid) ==
    IF neo_key # NULL
    THEN IF neo_key[1] \in DOMAIN nm
         THEN [id |-> Some(nm[neo_key[1]]), neo_map |-> nm, spk_map |-> sm,
               next_id |-> nid, minted |-> FALSE]
         ELSE IF spkid # NULL /\ spkid[1] \in DOMAIN sm
         THEN [id |-> Some(sm[spkid[1]]),
               neo_map |-> MapPut(nm, neo_key[1], sm[spkid[1]]), spk_map |-> sm,
               next_id |-> nid, minted |-> FALSE]
         ELSE [id |-> Some(nid),
               neo_map |-> MapPut(nm, neo_key[1], nid),
               spk_map |-> IF spkid # NULL THEN MapPut(sm, spkid[1], nid) ELSE sm,
               next_id |-> nid + 2, minted |-> TRUE]
    ELSE IF spkid # NULL
    THEN IF spkid[1] \in DOMAIN sm
         THEN [id |-> Some(sm[spkid[1]]), neo_map |-> nm, spk_map |-> sm,
               next_id |-> nid, minted |-> FALSE]
         ELSE [id |-> Some(nid), neo_map |-> nm,
               spk_map |-> MapPut(sm, spkid[1], nid),
               next_id |-> nid + 2, minted |-> TRUE]
    ELSE [id |-> NULL, neo_map |-> nm, spk_map |-> sm, next_id |-> nid,
          minted |-> FALSE]

\* A variant that mints a key for a row that has neither an id nor an SPK-id.
ResolveMintKeyless(nm, sm, nid, neo_key, spkid) ==
    IF neo_key # NULL
    THEN IF neo_key[1] \in DOMAIN nm
         THEN [id |-> Some(nm[neo_key[1]]), neo_map |-> nm, spk_map |-> sm,
               next_id |-> nid, minted |-> FALSE]
         ELSE IF spkid # NULL /\ spkid[1] \in DOMAIN sm
         THEN [id |-> Some(sm[spkid[1]]),
               neo_map |-> MapPut(nm, neo_key[1], sm[spkid[1]]), spk_map |-> sm,
               next_id |-> nid, minted |-> FALSE]
         ELSE [id |-> Some(nid),
               neo_map |-> MapPut(nm, neo_key[1], nid),
               spk_map |-> IF spkid # NULL THEN MapPut(sm, spkid[1], nid) ELSE sm,
               next_id |-> nid + 1, minted |-> TRUE]
    ELSE IF spkid # NULL /\ spkid[1] \in DOMAIN sm
    THEN [id |-> Some(sm[spkid[1]]), neo_map |-> nm, spk_map |-> sm,
          next_id |-> nid, minted |-> FALSE]
    ELSE [id |-> Some(nid), neo_map |-> nm,
          spk_map |-> IF spkid # NULL THEN MapPut(sm, spkid[1], nid) ELSE sm,
          next_id |-> nid + 1, minted |-> TRUE]

\* Returns the surrogate key (NULL when the row has neither key), the maps
\* and the counter after the block, and whether a key was minted.
Resolve(nm, sm, nid, neo_key, spkid) ==
    IF neo_key # NULL
    THEN IF neo_key[1] \in DOMAIN nm
         THEN [id |-> Some(nm[neo_key[1]]), neo_map |-> nm, spk_map |-> sm,
               next_id |-> nid, minted |-> FALSE]
         ELSE IF spkid # NULL /\ spkid[1] \in DOMAIN sm
         THEN [id |-> Some(sm[spkid[1]]),
               neo_map |-> MapPut(nm, neo_key[1], sm[spkid[1]]), spk_map |-> sm,
               next_id |-> nid, minted |-> FALSE]
         ELSE [id |-> Some(nid),
               neo_map |-> MapPut(nm, neo_key[1], nid),
               spk_map |-> IF spkid # NULL THEN MapPut(sm, spkid[1], nid) ELSE sm,
               next_id |-> nid + 1, minted |-> TRUE]
    ELSE IF spkid # NULL
    THEN IF spkid[1] \in DOMAIN sm
         THEN [id |-> Some(sm[spkid[1]]), neo_map |-> nm, spk_map |-> sm,
               next_id |-> nid, minted |-> FALSE]
         ELSE [id |-> Some(nid), neo_map |-> nm,
               spk_map |-> MapPut(sm, spkid[1], nid),
               next_id |-> nid + 1, minted |-> TRUE]
    ELSE [id |-> NULL, neo_map |-> nm, spk_map |-> sm, next_id |-> nid,
          minted |-> FALSE]

----------------------------------------------------------------------------
(* The header normalizers.  A header name is a text; the names the code    *)
(* generates are c + "_dup" + str(n) and "epoch_mpc" (epoch + "_mpc").     *)

EpochName == <<"epoch">>
EpochMpcName == <<"epoch", "_mpc">>

\* The loop body shared by both functions: counts is the dict, out the list.
RECURSIVE UniqueFrom(_, _, _)
UniqueFrom(fields, counts, out) ==
    IF fields = <<>> THEN out
    ELSE LET c == Head(fields)
         IN  IF c \in DOMAIN counts
             THEN UniqueFrom(Tail(fields), [counts EXCEPT ![c] = @ + 1],
                             Append(out, IF c = EpochName THEN EpochMpcName
                                         ELSE c \o <<"_dup">> \o IntStr(counts[c] + 1)))
             ELSE UniqueFrom(Tail(fields), MapPut(counts, c, 1), Append(out, c))

\* ensure_unique_header_fields(fields)
EnsureUniqueHeaderFields(fields) == UniqueFrom(fields, <<>>, <<>>)

\* str.lstrip("﻿"); the byte-order mark is the token "BOM"
RECURSIVE LStripBom(_)
LStripBom(s) == IF s # <<>> /\ Head(s) = "BOM" THEN LStripBom(Tail(s)) ELSE s

\* normalize_header(fields): (c or "").strip().lower().lstrip("﻿") first
NormalizeHeader(fields) ==
    UniqueFrom([k \in DOMAIN fields |-> LStripBom(Lower(Strip(fields[k])))], <<>>, <<>>)

----------------------------------------------------------------------------
(* The row loop of load_neo_mpcorb_csv: one CSV row is a function from     *)
(* (some) header names to cells.                                           *)

Get(row, f) == IF f \in DOMAIN row THEN Some(row[f]) ELSE NULL
\* row.get(f) or ""
Cell(row, f) == OrEmpty(Get(row, f))
\* s[:k]
Trunc(s, k) == SubSeq(s, 1, IF Len(s) < k THEN Len(s) ELSE k)
\* parse_float(row.get(f) or ""), falling back to column g
Float2(row, f, g) ==
    IF ParseFloat(Cell(row, f)) # NULL THEN ParseFloat(Cell(row, f))
    ELSE ParseFloat(Cell(row, g))

\* ((row.get(f) or "N").strip().upper()[:1] or "N"), then anything but Y -> N
Flag(row, f) ==
    LET raw == IF Cell(row, f) = EMPTY THEN <<"N">> ELSE Cell(row, f)
        v == Trunc(Upper(Strip(raw)), 1)
    IN  IF v = <<"Y">> THEN v ELSE <<"N">>

\* cls and cls_desc as passed to upsert_class
RowClass(row) ==
    LET c == Strip(Cell(row, "class"))
        orbit_type == Strip(Cell(row, "orbit_type"))
    IN  IF c = EMPTY /\ orbit_type # EMPTY THEN Trunc(orbit_type, 20) ELSE c
RowClassDesc(row) ==
    LET orbit_type == Strip(Cell(row, "orbit_type"))
    IN  Strip(IF Cell(row, "class_description") # EMPTY THEN Cell(row, "class_description")
              ELSE IF orbit_type # EMPTY THEN orbit_type
              ELSE RowClass(row))

UNKNOWN == <<"UNKNOWN">>

\* The arguments of the upsert_asteroid call, by column name.
AsteroidParams(row, id_internal, neo_id, spkid) ==
    LET designation == OrEmpty(NormText(Get(row, "designation")))
        designation_full == OrEmpty(NormText(Get(row, "designation_full")))
        fn == NormText(Get(row, "full_name"))
        pd == NormText(Get(row, "pdes"))
        nm == NormText(Get(row, "name"))
    IN  [c \in AstCols |->
          CASE c = "id_internal" -> id_internal
            [] c = "spkid" -> spkid
            [] c = "neo_id" -> neo_id
            [] c = "full_name" ->
                 Some(Trunc(IF fn # NULL THEN fn[1]
                            ELSE IF designation_full # EMPTY THEN designation_full
                            ELSE IF designation # EMPTY THEN designation
                            ELSE UNKNOWN, 100))
            [] c = "pdes" ->
                 Some(Trunc(IF pd # NULL THEN pd[1]
                            ELSE IF designation # EMPTY THEN designation
                            ELSE IF designation_full # EMPTY THEN designation_full
                            ELSE UNKNOWN, 50))
            [] c = "name" -> IF nm # NULL THEN Some(Trunc(nm[1], 100)) ELSE NULL
            [] c = "prefix" -> Some(Trunc(OrEmpty(NormText(Get(row, "prefix"))), 10))
            [] c = "neo_flag" -> Some(Flag(row, "neo"))
            [] c = "pha_flag" -> Some(Flag(row, "pha"))
            [] c = "absolute_magnitude" -> Float2(row, "h", "abs_mag")
            [] OTHER -> ParseFloat(Cell(row, c))]

\* The epoch block: epoch, epoch_mjd, epoch_cal after the packed-epoch
\* fallback.
RowEpoch(row) ==
    LET epoch == ParseFloat(Cell(row, "epoch"))
        epoch_mjd == ParseFloat(Cell(row, "epoch_mjd"))
        epoch_cal == ParseDate(Cell(row, "epoch_cal"))
        epoch_mpc == Strip(Cell(row, "epoch_mpc"))
        usePacked == ~Truthy(epoch) /\ ~Truthy(epoch_mjd) /\ epoch_cal = NULL
                     /\ epoch_mpc # EMPTY
        packed == MpcPackedToDate(epoch_mpc)
    IN  IF usePacked /\ MpcPackedRaises(epoch_mpc)
        THEN [raises |-> TRUE, epoch |-> epoch, epoch_mjd |-> epoch_mjd,
              epoch_cal |-> epoch_cal]
        ELSE IF usePacked /\ packed # NULL
        THEN [raises |-> FALSE,
              epoch |-> Some(RAdd(DateToMjd(packed[1]), JdOffset)),
              epoch_mjd |-> Some(DateToMjd(packed[1])),
              epoch_cal |-> packed]
        ELSE [raises |-> FALSE, epoch |-> epoch, epoch_mjd |-> epoch_mjd,
              epoch_cal |-> IF usePacked THEN packed ELSE epoch_cal]


\* A variant that derives q and per from their inputs also when the row
\* supplies them.
DeriveOverSupplied(row, epoch, epoch_cal) ==
    LET e == Float2(row, "e", "eccentricity")
        a == Float2(row, "a", "semi_major_axis")
        q0 == ParseFloat(Cell(row, "q"))
        ad0 == ParseFloat(Cell(row, "ad"))
        ma == Float2(row, "ma", "mean_anomaly")
        n == Float2(row, "n", "mean_motion")
        tp0 == ParseFloat(Cell(row, "tp"))
        tp_cal0 == ParseDate(Cell(row, "tp_cal"))
        per0 == ParseFloat(Cell(row, "per"))
        per_y0 == ParseFloat(Cell(row, "per_y"))
        derivePer == Truthy(n)
        per == IF derivePer THEN Some(RDiv(F(360), n[1])) ELSE per0
        per_y == IF derivePer
                 THEN (IF Truthy(per) THEN Some(RDiv(per[1], DaysPerYear)) ELSE NULL)
                 ELSE per_y0
        deriveTp == tp0 = NULL /\ Truthy(epoch) /\ Truthy(n) /\ ma # NULL
        tp_jd == RSub(epoch[1], RDiv(ma[1], n[1]))
        tp_mjd == RSub(tp_jd, JdOffset)
        tp_cal1 == IF deriveTp THEN Some(MjdToDate(tp_mjd)) ELSE tp_cal0
    IN  [raises |-> deriveTp /\ MjdToDateRaises(tp_mjd),
         e |-> e, a |-> a, ma |-> ma, n |-> n,
         q |-> IF a # NULL /\ e # NULL
               THEN Some(RMul(a[1], RSub(F(1), e[1]))) ELSE q0,
         ad |-> IF ad0 = NULL /\ a # NULL /\ e # NULL
                THEN Some(RMul(a[1], RAdd(F(1), e[1]))) ELSE ad0,
         per |-> per, per_y |-> per_y,
         tp |-> IF deriveTp THEN Some(tp_jd) ELSE tp0,
         tp_cal |-> IF tp_cal1 # NULL THEN tp_cal1
                    ELSE IF epoch_cal # NULL THEN epoch_cal ELSE Some(Today)]

\* The orbital derivation: q, ad, per, per_y, tp, tp_cal from the parsed
\* elements.  raises: mjd_to_date overflowed while deriving tp_cal.
Derive(row, epoch, epoch_cal) ==
    LET e == Float2(row, "e", "eccentricity")
        a == Float2(row, "a", "semi_major_axis")
        q0 == ParseFloat(Cell(row, "q"))
        ad0 == ParseFloat(Cell(row, "ad"))
        ma == Float2(row, "ma", "mean_anomaly")
        n == Float2(row, "n", "mean_motion")
        tp0 == ParseFloat(Cell(row, "tp"))
        tp_cal0 == ParseDate(Cell(row, "tp_cal"))
        per0 == ParseFloat(Cell(row, "per"))
        per_y0 == ParseFloat(Cell(row, "per_y"))
        derivePer == per0 = NULL /\ Truthy(n)
        per == IF derivePer THEN Some(RDiv(F(360), n[1])) ELSE per0
        per_y == IF derivePer
                 THEN (IF Truthy(per) THEN Some(RDiv(per[1], DaysPerYear)) ELSE NULL)
                 ELSE per_y0
        deriveTp == tp0 = NULL /\ Truthy(epoch) /\ Truthy(n) /\ ma # NULL
        tp_jd == RSub(epoch[1], RDiv(ma[1], n[1]))
        tp_mjd == RSub(tp_jd, JdOffset)
        tp_cal1 == IF deriveTp THEN Some(MjdToDate(tp_mjd)) ELSE tp_cal0
    IN  [raises |-> deriveTp /\ MjdToDateRaises(tp_mjd),
         e |-> e, a |-> a, ma |-> ma, n |-> n,
         q |-> IF q0 = NULL /\ a # NULL /\ e # NULL
               THEN Some(RMul(a[1], RSub(F(1), e[1]))) ELSE q0,
         ad |-> IF ad0 = NULL /\ a # NULL /\ e # NULL
                THEN Some(RMul(a[1], RAdd(F(1), e[1]))) ELSE ad0,
         per |-> per, per_y |-> per_y,
         tp |-> IF deriveTp THEN Some(tp_jd) ELSE tp0,
         tp_cal |-> IF tp_cal1 # NULL THEN tp_cal1
                    ELSE IF epoch_cal # NULL THEN epoch_cal ELSE Some(Today)]

\* The arguments of the insert_orbit_if_new call, by column name.
OrbitParams(row, orbit_id, id_internal, cls) ==
    LET ep == RowEpoch(row)
        d == Derive(row, ep.epoch, ep.epoch_cal)
    IN  [c \in OrbCols |->
          CASE c = "id_orbita" -> Some(orbit_id)
            [] c = "id_internal" -> id_internal
            [] c = "class" -> Some(cls)
            [] c = "equinox" ->
                 Some(Strip(IF Cell(row, "equinox") = EMPTY THEN J2000
                            ELSE Cell(row, "equinox")))
            [] c = "epoch" -> ep.epoch
            [] c = "epoch_mjd" -> ep.epoch_mjd
            [] c = "epoch_cal" -> ep.epoch_cal
            [] c = "rms" -> Float2(row, "rms", "rms_residual")
            [] c = "i" -> Float2(row, "i", "inclination")
            [] c = "om" -> Float2(row, "om", "long_asc_node")
            [] c = "w" -> Float2(row, "w", "arg_perihelion")
            [] c \in {"e", "a", "ma", "n", "q", "ad", "per", "per_y", "tp", "tp_cal"} -> d[c]
            [] c = "orbit_uncertainty" -> ParseInt(Cell(row, "uncertainty"))
            [] c = "condition_code" -> NULL
            [] OTHER -> ParseFloat(Cell(row, c))]

OrbitParamsRaise(row) ==
    \/ RowEpoch(row).raises
    \/ Derive(row, RowEpoch(row).epoch, RowEpoch(row).epoch_cal).raises

----------------------------------------------------------------------------
(* One iteration of the row loop, up to the except clause.                 *)

CommitEvery == 1000

\* start_line_no
StartLineNo(has_header) == IF has_header THEN 2 ELSE 1

\* A variant that tests the number of data rows processed.
CommitDueOnRows(line_no, rows) == rows % CommitEvery = 0
\* if (line_no % 1000) == 0; rows counts the data rows, this one included
CommitDue(line_no, rows) == line_no % CommitEvery = 0

\* Everything the try block computes from the row alone (it touches neither
\* the database nor the maps): the keys, the class, and the arguments of the
\* two upsert calls with the surrogate key and the orbit id still open.
ParseRow(row) ==
    LET neo_id == NormText(Get(row, "id"))
        spkid == ParseInt(Cell(row, "spkid"))
    IN  [id_cell |-> Get(row, "id"),
         spkid_cell |-> Get(row, "spkid"),
         orbit_id_cell |-> Get(row, "orbit_id"),
         neo_id |-> neo_id,
         spkid |-> spkid,
         orbit_id |-> NormText(Get(row, "orbit_id")),
         neo_key |-> IF neo_id # NULL THEN Some(Lower(neo_id[1])) ELSE NULL,
         cls |-> RowClass(row),
         cls_desc |-> RowClassDesc(row),
         ast |-> AsteroidParams(row, NULL, neo_id, spkid),
         orb |-> OrbitParams(row, EMPTY, NULL, RowClass(row)),
         orb_raises |-> OrbitParamsRaise(row),
         raise_text |-> IF RowEpoch(row).raises THEN <<"invalid literal for int()">>
                        ELSE <<"date value out of range">>]

\* fate names the statement the database rejects for this row ("none": no
\* statement is rejected); pyodbc raises from cur.execute then.  Constraint
\* violations and Python errors are raised whatever fate says.  The result
\* holds the tables and the locals as the try block leaves them, whether it
\* raised, and whether the rejected statement was reached at all.
RowStep(c, A, O, C, rn, pr, fate) ==
    LET C1 == UpsertClass(c, C, pr.cls, pr.cls_desc)
        res == Resolve(rn.neo_map, rn.spk_map, rn.next_id, pr.neo_key, pr.spkid)
        called == res.id # NULL
        ua == UpsertAsteroid(c, A, [pr.ast EXCEPT !["id_internal"] = res.id])
        A1 == IF called THEN ua.tbl ELSE A
        synth == pr.orbit_id = NULL
        orbit_id == IF synth THEN <<"MPC">> \o IntStr(rn.mpc_seq) ELSE pr.orbit_id[1]
        io == InsertOrbitIfNew(c, O, C1,
                  [pr.orb EXCEPT !["id_orbita"] = Some(orbit_id),
                                 !["id_internal"] = res.id])
        r1 == [rn EXCEPT !.missing_keys =
                   IF pr.neo_id = NULL /\ pr.spkid = NULL THEN @ + 1 ELSE @]
        r2 == [r1 EXCEPT !.neo_map = res.neo_map, !.spk_map = res.spk_map,
                         !.next_id = res.next_id,
                         !.minted = IF res.minted
                                    THEN Append(@, <<res.id[1], pr.neo_key, pr.spkid>>)
                                    ELSE @,
                         !.resolved = @ \cup {<<pr.neo_id, pr.spkid, res.id>>}]
        r3 == [r2 EXCEPT !.inserted_ast = IF called /\ ua.action = "insert" THEN @ + 1 ELSE @,
                         !.updated_ast = IF called /\ ua.action = "update" THEN @ + 1 ELSE @]
        r4 == [r3 EXCEPT !.mpc_seq = IF synth THEN @ + 1 ELSE @]
        r5 == [r4 EXCEPT !.inserted_orb = IF io.inserted THEN @ + 1 ELSE @]
        info(stage, action, branch) ==
            [op |-> "row", stage |-> stage, neo_id |-> pr.neo_id, spkid |-> pr.spkid,
             id |-> IF stage = "class" THEN NULL ELSE res.id,
             action |-> action, orbit_id |-> orbit_id, synth |-> synth,
             branch |-> branch, diameter |-> pr.ast["diameter"],
             cls |-> pr.cls, cls_desc |-> pr.cls_desc]
    IN  IF fate = "class"
        THEN [asteroid |-> A, orbit |-> O, class_orbital |-> C, run |-> r1,
              raised |-> TRUE, reached |-> pr.cls # EMPTY,
              info |-> info("class", "none", "none")]
        ELSE IF called /\ (fate = "asteroid" \/ ua.action = "raise")
        THEN [asteroid |-> A, orbit |-> O, class_orbital |-> C1, run |-> r2,
              raised |-> TRUE, reached |-> TRUE,
              info |-> info("asteroid", "raise", "none")]
        ELSE IF pr.orb_raises
        THEN [asteroid |-> A1, orbit |-> O, class_orbital |-> C1, run |-> r4,
              raised |-> TRUE, reached |-> fate = "none",
              info |-> info("derive", IF called THEN ua.action ELSE "none", "none")]
        ELSE IF fate = "orbit" /\ io.branch # "skip"
        THEN [asteroid |-> A1, orbit |-> O, class_orbital |-> io.class_orbital,
              run |-> r4, raised |-> TRUE, reached |-> TRUE,
              info |-> info("orbit", IF called THEN ua.action ELSE "none", "raise")]
        ELSE [asteroid |-> A1, orbit |-> io.orbit, class_orbital |-> io.class_orbital,
              run |-> r5, raised |-> FALSE, reached |-> fate = "none",
              info |-> info("end", IF called THEN ua.action ELSE "none", io.branch)]

----------------------------------------------------------------------------
(* load_neo_mpcorb_csv as a process: pc is "idle" before the call, "loop"  *)
(* inside the row loop, "done" after the report, "returned" after the      *)
(* early return on an unreadable header, "aborted" when an exception left  *)
(* the function.                                                           *)

Runs == {1, 2}

IdleRun ==
    [pc |-> "idle", has_header |-> FALSE, neo_map |-> <<>>, spk_map |-> <<>>,
     next_id |-> 0, mpc_seq |-> 0, rows |-> 0,
     inserted_ast |-> 0, updated_ast |-> 0, inserted_orb |-> 0, errors |-> 0,
     missing_keys |-> 0,
     \* error_counts in insertion order, as pairs <<msg, count>>
     error_counts |-> <<>>, error_samples |-> <<>>,
     \* history, for stating properties: the ids the maps were seeded from, the
     \* counter's first value, the keys minted, the rows resolved, the number
     \* of data rows after which the loop committed, the rows not yet committed
     seed_ids |-> {}, seed_next |-> 0, minted |-> <<>>, resolved |-> {},
     commit_rows |-> {}, uncommitted |-> 0,
     \* history: every failure in row order, and the lines of the report
     failed |-> <<>>, report |-> [printed |-> FALSE]]

\* Lines 493-515: the header is read (kind tells what the file holds), the
\* maps and both counters are seeded.  ensure_reference_data writes only the
\* Priority and Level tables, which nothing here reads.
StartRun(r, kinds) ==
    /\ run[r].pc = "idle"
    /\ \E kind \in kinds :
         IF kind = "empty"
         THEN run' = [run EXCEPT ![r].pc = "returned"]
         ELSE \E nm \in NeoMaps(asteroid), sm \in SpkMaps(asteroid) :
                run' = [run EXCEPT ![r] =
                          [@ EXCEPT !.pc = "loop",
                                    !.has_header = (kind = "header"),
                                    !.neo_map = nm, !.spk_map = sm,
                                    !.next_id = GetNextIdInternal(asteroid),
                                    !.mpc_seq = GetNextMpcSeq(collation, orbit),
                                    !.seed_ids = Ids(asteroid),
                                    !.seed_next = GetNextIdInternal(asteroid)]]
    /\ last' = [op |-> "start", r |-> r]
    /\ UNCHANGED <<asteroid, orbit, class_orbital, load_error, collation, hdr, gen, call, gui, neo_csv, mpcorb>>

SampleLimit == 5
TopLimit == 5

\* error_counts[msg] = error_counts.get(msg, 0) + 1
CountError(counts, msg) ==
    IF \E k \in DOMAIN counts : counts[k][1] = msg
    THEN [k \in DOMAIN counts |->
            IF counts[k][1] = msg THEN <<msg, counts[k][2] + 1>> ELSE counts[k]]
    ELSE Append(counts, <<msg, 1>>)

\* A variant that keeps the latest failures.
AddSampleLatest(samples, sample) ==
    IF Len(samples) < SampleLimit THEN Append(samples, sample)
    ELSE Append(Tail(samples), sample)

\* if len(error_samples) < 5: error_samples.append(...)
AddSample(samples, sample) ==
    IF Len(samples) < SampleLimit THEN Append(samples, sample) ELSE samples

\* sorted(error_counts.items(), key=lambda kv: kv[1], reverse=True)[:5]: the
\* sort is stable, also when reversed.
TopErrors(counts) ==
    LET rank(k) == Cardinality({j \in DOMAIN counts :
                        \/ counts[j][2] > counts[k][2]
                        \/ counts[j][2] = counts[k][2] /\ j < k}) + 1
        n == IF Len(counts) < TopLimit THEN Len(counts) ELSE TopLimit
    IN  [i \in 1..n |-> counts[CHOOSE k \in DOMAIN counts : rank(k) = i]]

\* One iteration of "for line_no, row in enumerate(reader, start=start_line_no)":
\* the try block, the except clause (with log_error, whose own statements
\* may raise: logfate) and the periodic commit.  text is str(ex) of the
\* exception a rejected statement raises.
LoadRowText(r, pr, fate, logfate, text) ==
    LET rn == run[r]
        st == RowStep(collation, asteroid, orbit, class_orbital, rn, pr, fate)
        line_no == StartLineNo(rn.has_header) + rn.rows
        commit == CommitDue(line_no, rn.rows + 1)
        msg == IF st.info.stage = "derive" THEN pr.raise_text ELSE text
        sample == <<line_no, pr.id_cell, pr.spkid_cell, pr.orbit_id_cell, msg>>
        counted == [st.run EXCEPT
                       !.rows = @ + 1,
                       !.errors = IF st.raised THEN @ + 1 ELSE @,
                       !.error_counts = IF st.raised THEN CountError(@, msg) ELSE @,
                       !.error_samples = IF st.raised THEN AddSample(@, sample) ELSE @,
                       !.failed = IF st.raised THEN Append(@, sample) ELSE @]
    IN  /\ rn.pc = "loop"
        /\ st.reached
        /\ logfate = "raise" => st.raised
        /\ asteroid' = st.asteroid
        /\ orbit' = st.orbit
        /\ class_orbital' = st.class_orbital
        /\ IF st.raised /\ logfate = "raise"
           THEN /\ run' = [run EXCEPT ![r] =
                             [counted EXCEPT !.pc = "aborted", !.uncommitted = @ + 1]]
                /\ load_error' = load_error
           ELSE /\ run' = [run EXCEPT ![r] =
                             [counted EXCEPT
                                !.uncommitted = IF commit THEN 0 ELSE @ + 1,
                                !.commit_rows = IF commit THEN @ \cup {rn.rows + 1} ELSE @]]
                /\ load_error' = IF st.raised /\ load_error # NULL
                                 THEN Some(load_error[1] + 1) ELSE load_error
        /\ last' = [st.info EXCEPT !.op = "row"] @@ [r |-> r, raised |-> st.raised,
                                                    logfate |-> logfate]
        /\ UNCHANGED <<collation, hdr, gen, call, gui, neo_csv, mpcorb>>

\* The text of a rejected statement where a run does not choose it.
Rejected == <<"rejected">>

LoadRow(r, pr, fate, logfate) == LoadRowText(r, pr, fate, logfate, Rejected)

\* Lines 723-741: the final commit and the report.
Finish(r) ==
    /\ run[r].pc = "loop"
    /\ run' = [run EXCEPT ![r].pc = "done", ![r].uncommitted = 0,
                          ![r].report = [printed |-> TRUE,
                                         errors |-> run[r].errors,
                                         samples |-> run[r].error_samples,
                                         top |-> TopErrors(run[r].error_counts)]]
    /\ last' = [op |-> "finish", r |-> r]
    /\ UNCHANGED <<asteroid, orbit, class_orbital, load_error, collation, hdr, gen, call, gui, neo_csv, mpcorb>>

----------------------------------------------------------------------------
(* Inputs: database contents before a run, and CSV rows.                   *)

\* An Asteroid row as upsert_asteroid's INSERT leaves it for a CSV row that
\* has only the keys.
AstRow(id, neo, spk) ==
    [c \in AstCols |->
        CASE c = "id_internal" -> Some(id)
          [] c = "neo_id" -> neo
          [] c = "spkid" -> spk
          [] c \in {"full_name", "pdes"} -> Some(UNKNOWN)
          [] c \in {"neo_flag", "pha_flag"} -> Some(<<"N">>)
          [] c = "prefix" -> Some(EMPTY)
          [] c = "absolute_magnitude" -> Some(F(0))
          [] OTHER -> NULL]

\* An Orbit row as insert_orbit_if_new's INSERT leaves it for a CSV row that
\* has no orbital element.
OrbRow(id_orbita, owner) ==
    [c \in OrbCols |->
        CASE c = "id_orbita" -> Some(id_orbita)
          [] c = "id_internal" -> owner
          [] c \in OrbZeroCols -> Some(F(0))
          [] c = "equinox" -> Some(J2000)
          [] c = "class" -> Some(NEA)
          [] c = "tp_cal" -> Some(Today)
          [] OTHER -> NULL]

NeaClass == [class |-> NEA, class_description |-> NearEarthAsteroid]

\* Databases a run can start from: empty; one asteroid known by both keys,
\* with its orbit; two asteroids, one known by its id only and one by its
\* SPK-id only, the second with a synthesized orbit id.
InitDbs ==
    { [asteroid |-> {}, orbit |-> {}, class_orbital |-> {}],
      [asteroid |-> {AstRow(1, Some(<<"A">>), Some(1))},
       orbit |-> {OrbRow(<<"o1">>, Some(1))},
       class_orbital |-> {NeaClass}],
      [asteroid |-> {AstRow(1, Some(<<"b">>), NULL), AstRow(3, NULL, Some(2))},
       orbit |-> {OrbRow(<<"MPC", "1">>, Some(3))},
       class_orbital |-> {NeaClass}] }

MaxRows == 2

IdCells == {EMPTY, <<"a">>, <<"A", " ">>, <<"b">>}
SpkCells == {EMPTY, <<"1">>, <<"2">>}

KeyRow(i, k, o) ==
    [f \in {"id", "spkid", "orbit_id"} |->
        CASE f = "id" -> i [] f = "spkid" -> k [] f = "orbit_id" -> o]

\* Every combination of the two keys without an orbit id, and four rows that
\* name the orbit o1: for each known asteroid, for a new one, and keyless.
KeyRows ==
    {KeyRow(i, k, EMPTY) : i \in IdCells, k \in SpkCells}
    \cup {KeyRow(<<"a">>, <<"1">>, <<"o1">>), KeyRow(EMPTY, <<"2">>, <<"o1">>),
          KeyRow(<<"b">>, EMPTY, <<"o1">>), KeyRow(EMPTY, EMPTY, <<"o1">>)}

\* Arguments of upsert_asteroid: two surrogate keys, with or without each
\* natural key; the numeric arguments are absent and the free texts empty,
\* or they carry one of two sets of values.
ArgValues ==
    { [num |-> NULL, text |-> EMPTY],
      [num |-> Some(F(10)), text |-> <<"X">>],
      [num |-> Some(F(99)), text |-> <<"Y">>] }

UpsertArgs ==
    {[c \in AstCols |->
        CASE c = "id_internal" -> Some(id)
          [] c = "neo_id" -> neo
          [] c = "spkid" -> spk
          [] c \in AstNumCols -> v.num
          [] c \in {"full_name", "name", "prefix"} -> Some(v.text)
          [] c = "pdes" -> Some(UNKNOWN)
          [] OTHER -> Some(<<"N">>)]
     : id \in {1, 2}, neo \in {NULL, Some(<<"a">>)}, spk \in {NULL, Some(1)},
       v \in ArgValues}

UpsertDbs ==
    { {},
      {[AstRow(1, Some(<<"A">>), NULL) EXCEPT !["diameter"] = Some(F(10)),
                                             !["full_name"] = Some(EMPTY)]} }

\* Arguments of insert_orbit_if_new: the owner, the elements with their
\* sigmas and codes and the texts (v), and the epoch triple (ep).
EpochArgs ==
    { [epoch |-> NULL, epoch_mjd |-> NULL, epoch_cal |-> NULL],
      [epoch |-> Some(<<4920001, 2>>), epoch_mjd |-> NULL, epoch_cal |-> NULL],
      [epoch |-> NULL, epoch_mjd |-> Some(F(60000)),
       epoch_cal |-> Some(<<2023, 2, 25>>)] }

OrbitArgs ==
    {[c \in OrbCols |->
        CASE c = "id_orbita" -> Some(oid)
          [] c = "id_internal" -> owner
          [] c \in {"epoch", "epoch_mjd", "epoch_cal"} -> ep[c]
          [] c = "tp_cal" -> ep["epoch_cal"]
          [] c \in OrbTextCols -> Some(v.text)
          [] c \in {"orbit_uncertainty", "condition_code"} ->
               IF v.num = NULL THEN NULL ELSE Some(v.num[1][1])
          [] OTHER -> v.num]
     : oid \in {<<"o1">>}, owner \in {NULL, Some(1), Some(2)},
       v \in ArgValues, ep \in EpochArgs}

OrbitClasses ==
    {NeaClass, [class |-> <<"X">>, class_description |-> <<"X">>],
     [class |-> <<"Y">>, class_description |-> <<"Y">>]}

OrbitDbs ==
    { {}, {OrbRow(<<"o1">>, NULL)},
      {[OrbRow(<<"o1">>, Some(1)) EXCEPT !["rms"] = Some(F(10)),
                                        !["equinox"] = Some(EMPTY)]} }

ParsedKeyRows == {ParseRow(row) : row \in KeyRows}

\* Rows for the runs in which statements fail: with and without a class, and
\* two rows on which Python raises (a packed epoch with a non-ASCII digit;
\* elements whose derived perihelion date is out of range).
ErrRows ==
    { [id |-> <<"a">>, spkid |-> <<"1">>, orbit_id |-> <<"o1">>, class |-> <<"APO">>],
      [id |-> <<"a">>, spkid |-> EMPTY, orbit_id |-> EMPTY, class |-> <<"APO">>],
      [id |-> EMPTY, spkid |-> <<"1">>, orbit_id |-> <<"o1">>, class |-> EMPTY],
      [id |-> EMPTY, spkid |-> EMPTY, orbit_id |-> EMPTY, class |-> EMPTY],
      [id |-> <<"b">>, spkid |-> EMPTY, orbit_id |-> <<"o2">>,
       epoch_mpc |-> <<"K", "2", "sup2", "1", "1">>],
      [id |-> <<"b">>, spkid |-> EMPTY, orbit_id |-> <<"o2">>,
       epoch |-> <<"2460000.5">>, ma |-> <<"360">>, n |-> <<"1e-6">>] }

ParsedErrRows == {ParseRow(row) : row \in ErrRows}

\* The two-row file: row 1 has an id, an SPK-id, an orbit id and the orbital
\* elements; row 2 repeats the id and has only a diameter.
ScenarioFirst ==
    {[id |-> <<"2020 AB">>, spkid |-> <<"12345">>, orbit_id |-> o, epoch |-> ep,
      e |-> e, a |-> <<"2.5">>, i |-> <<"5">>, om |-> <<"10">>, w |-> <<"12">>,
      ma |-> <<"99">>, n |-> <<"0.5">>, class |-> <<"APO">>]
     : o \in {<<"o1">>, <<"o2">>}, ep \in {<<"2460000.5">>, EMPTY},
       e \in {<<"0.5">>, <<"0">>}}
ScenarioSecond ==
    {[id |-> i, diameter |-> d]
     : i \in {<<"2020 AB">>, <<"2020 AB", " ">>}, d \in {<<"10">>, <<"99">>, <<"2.5">>}}

ParsedScenario ==
    <<{ParseRow(row) : row \in ScenarioFirst}, {ParseRow(row) : row \in ScenarioSecond}>>

TwoRunRows ==
    {[id |-> i, spkid |-> EMPTY, orbit_id |-> EMPTY] : i \in {<<"a">>, <<"b">>}}

ParsedTwoRunRows == {ParseRow(row) : row \in TwoRunRows}

MaxCommitRows == 2001
MaxCommitErrors == 1

CommitRows == {[id |-> <<"a">>, spkid |-> <<"1">>, orbit_id |-> <<"o1">>]}

ParsedCommitRows == {ParseRow(row) : row \in CommitRows}

MaxHeaderLen == 3

HeaderNames ==
    {<<"a">>, <<"A">>, EpochName, EpochMpcName, <<"a", "_dup", "2">>, <<"BOM", " ", "a">>}

RECURSIVE HeaderLists(_)
HeaderLists(n) ==
    IF n = 0 THEN {<<>>}
    ELSE HeaderLists(n - 1)
         \cup {Append(l, c) : l \in {x \in HeaderLists(n - 1) : Len(x) = n - 1},
                              c \in HeaderNames}

IdleGen == [pc |-> "idle"]
IdleCall == [pc |-> "idle"]
IdleGui == [pc |-> "idle"]
IdleNeoCsv == [pc |-> "idle"]
IdleMpcorb == [pc |-> "idle"]

Fates == {"none", "class", "asteroid", "orbit"}
LogFates == {"ok", "raise"}

Init ==
    /\ \E db \in InitDbs :
         /\ asteroid = db.asteroid
         /\ orbit = db.orbit
         /\ class_orbital = db.class_orbital
    /\ load_error = Some(0)
    /\ collation \in BOOLEAN
    /\ run = [r \in Runs |-> IdleRun]
    /\ last = [op |-> "none"]
    /\ hdr = [pc |-> "idle"]
    /\ gen = IdleGen
    /\ call = IdleCall
    /\ gui = IdleGui
    /\ neo_csv = IdleNeoCsv
    /\ mpcorb = IdleMpcorb

\* One run; the database accepts every statement that meets its constraints.
Load(r) ==
    \E pr \in ParsedKeyRows :
        /\ run[r].rows < MaxRows
        /\ LoadRow(r, pr, "none", "ok")

\* One run in which the database may reject any statement.
LoadErr(r) ==
    \E pr \in ParsedErrRows, fate \in Fates, logfate \in LogFates :
        /\ run[r].rows < MaxRows
        /\ LoadRow(r, pr, fate, logfate)

\* Row k of the two-row file.
LoadScenario(r) ==
    /\ run[r].rows < 2
    /\ \E pr \in ParsedScenario[run[r].rows + 1] : LoadRow(r, pr, "none", "ok")

\* Two runs against the same database.
LoadTwo(r) ==
    \E pr \in ParsedTwoRunRows :
        /\ run[r].rows < MaxRows
        /\ LoadRow(r, pr, "none", "ok")

\* A long file; at most MaxCommitErrors of its rows are rejected, each on a
\* line whose number is a multiple of CommitEvery or on the line after one.
LoadCommit(r) ==
    \E pr \in ParsedCommitRows, fate \in {"none", "asteroid"} :
        /\ run[r].rows < MaxCommitRows
        /\ fate = "asteroid" =>
              /\ run[r].errors < MaxCommitErrors
              /\ (StartLineNo(run[r].has_header) + run[r].rows) % CommitEvery \in {0, 1}
        /\ LoadRow(r, pr, fate, "ok")

Next == StartRun(1, {"empty", "header"}) \/ Load(1) \/ Finish(1)

Spec == Init /\ [][Next]_vars

----------------------------------------------------------------------------
(* upsert_asteroid and insert_orbit_if_new called on their own.            *)

UpsertAsteroidCall ==
    \E p \in UpsertArgs :
        LET u == UpsertAsteroid(collation, asteroid, p)
        IN  /\ asteroid' = u.tbl
            /\ last' = [op |-> "upsert_asteroid", p |-> p, action |-> u.action]
            /\ UNCHANGED <<orbit, class_orbital, load_error, collation, run, hdr, gen, call, gui, neo_csv, mpcorb>>

InsertOrbitCall ==
    \E p \in OrbitArgs :
        LET io == InsertOrbitIfNew(collation, orbit, class_orbital, p)
        IN  /\ orbit' = io.orbit
            /\ class_orbital' = io.class_orbital
            /\ last' = [op |-> "insert_orbit_if_new", p |-> p,
                        inserted |-> io.inserted, branch |-> io.branch]
            /\ UNCHANGED <<asteroid, load_error, collation, run, hdr, gen, call, gui, neo_csv, mpcorb>>

InitUpsert ==
    /\ asteroid \in UpsertDbs
    /\ orbit = {}
    /\ class_orbital = {}
    /\ load_error = Some(0)
    /\ collation \in BOOLEAN
    /\ run = [r \in Runs |-> IdleRun]
    /\ last = [op |-> "none"]
    /\ hdr = [pc |-> "idle"]
    /\ gen = IdleGen
    /\ call = IdleCall
    /\ gui = IdleGui
    /\ neo_csv = IdleNeoCsv
    /\ mpcorb = IdleMpcorb

NextUpsert == UpsertAsteroidCall

SpecUpsert == InitUpsert /\ [][NextUpsert]_vars

InitOrbit ==
    /\ asteroid = {AstRow(1, Some(<<"a">>), NULL), AstRow(2, Some(<<"b">>), NULL)}
    /\ orbit \in OrbitDbs
    /\ class_orbital = OrbitClasses
    /\ load_error = Some(0)
    /\ collation \in BOOLEAN
    /\ run = [r \in Runs |-> IdleRun]
    /\ last = [op |-> "none"]
    /\ hdr = [pc |-> "idle"]
    /\ gen = IdleGen
    /\ call = IdleCall
    /\ gui = IdleGui
    /\ neo_csv = IdleNeoCsv
    /\ mpcorb = IdleMpcorb

NextOrbit == InsertOrbitCall

SpecOrbit == InitOrbit /\ [][NextOrbit]_vars

----------------------------------------------------------------------------
(* The other specifications: the same actions from other starting states   *)
(* and with other inputs.                                                  *)

InitEmpty ==
    /\ asteroid = {}
    /\ orbit = {}
    /\ class_orbital = {}
    /\ run = [r \in Runs |-> IdleRun]
    /\ last = [op |-> "none"]
    /\ hdr = [pc |-> "idle"]
    /\ gen = IdleGen
    /\ call = IdleCall
    /\ gui = IdleGui
    /\ neo_csv = IdleNeoCsv
    /\ mpcorb = IdleMpcorb

InitErr == InitEmpty /\ load_error \in {NULL, Some(0)} /\ collation = TRUE

NextErr == StartRun(1, {"header"}) \/ LoadErr(1) \/ Finish(1)

SpecErr == InitErr /\ [][NextErr]_vars

InitScenario == InitEmpty /\ load_error = Some(0) /\ collation \in BOOLEAN

NextScenario == StartRun(1, {"header", "noheader"}) \/ LoadScenario(1) \/ Finish(1)

SpecScenario == InitScenario /\ [][NextScenario]_vars

NextTwoRuns == \E r \in Runs : StartRun(r, {"header"}) \/ LoadTwo(r) \/ Finish(r)

SpecTwoRuns == Init /\ [][NextTwoRuns]_vars

InitCommit == InitEmpty /\ load_error = Some(0) /\ collation = TRUE

NextCommit == StartRun(1, {"header", "noheader"}) \/ LoadCommit(1) \/ Finish(1)

SpecCommit == InitCommit /\ [][NextCommit]_vars

EnsureUniqueCall ==
    /\ hdr.pc = "input"
    /\ hdr' = [pc |-> "done", fn |-> "ensure_unique_header_fields",
               fields |-> hdr.fields, out |-> EnsureUniqueHeaderFields(hdr.fields)]
    /\ UNCHANGED <<asteroid, orbit, class_orbital, load_error, collation, run, last, gen, call, gui, neo_csv, mpcorb>>

NormalizeHeaderCall ==
    /\ hdr.pc = "input"
    /\ hdr' = [pc |-> "done", fn |-> "normalize_header",
               fields |-> hdr.fields, out |-> NormalizeHeader(hdr.fields)]
    /\ UNCHANGED <<asteroid, orbit, class_orbital, load_error, collation, run, last, gen, call, gui, neo_csv, mpcorb>>

InitHeader ==
    /\ asteroid = {}
    /\ orbit = {}
    /\ class_orbital = {}
    /\ load_error = Some(0)
    /\ collation = TRUE
    /\ run = [r \in Runs |-> IdleRun]
    /\ last = [op |-> "none"]
    /\ hdr \in {[pc |-> "input", fields |-> f] : f \in HeaderLists(MaxHeaderLen)}
    /\ gen = IdleGen
    /\ call = IdleCall
    /\ gui = IdleGui
    /\ neo_csv = IdleNeoCsv
    /\ mpcorb = IdleMpcorb

NextHeader == EnsureUniqueCall \/ NormalizeHeaderCall

SpecHeader == InitHeader /\ [][NextHeader]_vars

----------------------------------------------------------------------------
(* generate_sql.build_data_from_csv: the row loop that builds class_map,   *)
(* asteroids and orbits in memory.                                         *)

\* merge_field: the current value is kept unless it is None, "" or "NULL"
MergeField(current, new_value) ==
    IF current = NULL \/ current = Some(EMPTY) \/ current = Some(<<"NULL">>)
    THEN new_value ELSE current

\* merge_field on a date, which is never equal to a string
MergeDate(current, new_value) == IF current = NULL THEN new_value ELSE current

\* A variant that takes the new value whenever there is one.
MergeNumericOverwrite(current, new_value) ==
    IF new_value # NULL THEN new_value ELSE current

\* merge_numeric
MergeNumeric(current, new_value) == IF current = NULL THEN new_value ELSE current

\* split_designation_full: "(num) rest" gives <<num, rest>>, else <<"", v>>
SplitDesignationFull(value) ==
    LET v == Strip(value)
        closes == {k \in DOMAIN v : v[k] = ")"}
    IN  IF v # EMPTY /\ v[1] = "(" /\ closes # {}
        THEN LET close == CHOOSE k \in closes : \A j \in closes : k <= j
             IN  <<Strip(SubSeq(v, 2, close - 1)), Strip(SubSeq(v, close + 1, Len(v)))>>
        ELSE <<EMPTY, v>>

\* The first of the texts that is not empty, or the empty text.
FirstOf(texts) ==
    LET ks == {k \in DOMAIN texts : texts[k] # EMPTY}
    IN  IF ks = {} THEN EMPTY ELSE texts[CHOOSE k \in ks : \A j \in ks : k <= j]

\* The identity block: rows with both keys go through neo_map and spk_map,
\* every other row through mpc_map.
GenResolve(nm, sm, mm, nid, neo_id, spkid, mpc_key) ==
    IF neo_id # EMPTY /\ spkid # NULL
    THEN LET neo_key == Lower(neo_id)
         IN  IF neo_key \in DOMAIN nm
             THEN [id |-> nm[neo_key], neo_map |-> nm, spk_map |-> sm,
                   mpc_map |-> mm, next_id |-> nid]
             ELSE IF spkid[1] \in DOMAIN sm
             THEN [id |-> sm[spkid[1]], neo_map |-> MapPut(nm, neo_key, sm[spkid[1]]),
                   spk_map |-> sm, mpc_map |-> mm, next_id |-> nid]
             ELSE [id |-> nid, neo_map |-> MapPut(nm, neo_key, nid),
                   spk_map |-> MapPut(sm, spkid[1], nid), mpc_map |-> mm,
                   next_id |-> nid + 1]
    ELSE IF mpc_key \in DOMAIN mm
    THEN [id |-> mm[mpc_key], neo_map |-> nm, spk_map |-> sm, mpc_map |-> mm,
          next_id |-> nid]
    ELSE [id |-> nid, neo_map |-> nm, spk_map |-> sm,
          mpc_map |-> MapPut(mm, mpc_key, nid), next_id |-> nid + 1]

\* class_map.setdefault(cls, desc)
SetDefault(m, k, v) == IF k \in DOMAIN m THEN m ELSE MapPut(m, k, v)

\* A variant that replaces the description already stored.
SetDefaultReplace(m, k, v) == MapPut(m, k, v)

GenAstTextCols == {"full_name", "pdes", "name", "prefix", "neo_flag", "pha_flag",
                   "neo_id"}
GenAstCols == {"id_internal", "spkid", "diameter", "absolute_magnitude", "albedo",
               "diameter_sigma"} \cup GenAstTextCols

\* norm_flag
NormFlag(x) ==
    LET v == Trunc(Upper(Strip(OrEmpty(x))), 1)
    IN  IF v \in {<<"Y">>, <<"N">>} THEN v ELSE <<"N">>

\* The asteroid entry a row describes.
GenAsteroid(row, id_internal, neo_id, spkid) ==
    LET mpc_des == Strip(Cell(row, "designation"))
        mpc_full == Strip(Cell(row, "designation_full"))
        fn0 == NormText(Get(row, "full_name"))
        pd0 == NormText(Get(row, "pdes"))
        pd1 == IF pd0 # NULL THEN Trunc(pd0[1], 50) ELSE EMPTY
        nm0 == NormText(Get(row, "name"))
        px0 == NormText(Get(row, "prefix"))
        split == SplitDesignationFull(mpc_full)
        h0 == Float2(row, "h", "abs_mag")
    IN  [c \in GenAstCols |->
          CASE c = "id_internal" -> Some(id_internal)
            [] c = "spkid" -> spkid
            [] c = "neo_id" -> Some(neo_id)
            [] c = "full_name" ->
                 IF fn0 # NULL THEN Some(Trunc(fn0[1], 100))
                 ELSE Some(Trunc(Strip(FirstOf(<<mpc_full, mpc_des, pd1, UNKNOWN>>)), 100))
            [] c = "pdes" ->
                 IF pd0 # NULL THEN Some(pd1)
                 ELSE Some(Trunc(Strip(FirstOf(<<split[2], split[1], mpc_des>>)), 50))
            [] c = "name" -> IF nm0 # NULL THEN Some(Trunc(nm0[1], 100)) ELSE NULL
            [] c = "prefix" -> IF px0 # NULL THEN Some(Trunc(px0[1], 10)) ELSE Some(EMPTY)
            [] c = "neo_flag" -> Some(NormFlag(Get(row, "neo")))
            [] c = "pha_flag" -> Some(NormFlag(Get(row, "pha")))
            [] c = "absolute_magnitude" -> IF h0 = NULL THEN Some(F(0)) ELSE h0
            [] OTHER -> ParseFloat(Cell(row, c))]

\* The merge of a row's entry into the entry already held.
GenMergeAsteroid(ast, new) ==
    [c \in GenAstCols |->
        IF c = "id_internal" THEN ast[c]
        ELSE IF c \in GenAstTextCols THEN MergeField(ast[c], new[c])
        ELSE MergeNumeric(ast[c], new[c])]

\* orbit_id, synthesized from the designation when the column is empty;
\* NULL when the row names no orbit.
GenOrbitId(row) ==
    LET orbit_id == Strip(Cell(row, "orbit_id"))
        mpc_des == Strip(Cell(row, "designation"))
        mpc_full == Strip(Cell(row, "designation_full"))
    IN  IF orbit_id # EMPTY THEN Some(orbit_id)
        ELSE IF mpc_des # EMPTY THEN Some(<<"MPC:">> \o mpc_des)
        ELSE IF mpc_full # EMPTY THEN Some(<<"MPC:">> \o mpc_full)
        ELSE NULL

\* The epoch block of generate_sql.
GenRowEpoch(row) ==
    LET epoch0 == ParseFloat(Cell(row, "epoch"))
        epoch_mjd == ParseFloat(Cell(row, "epoch_mjd"))
        epoch_cal == ParseDate(Cell(row, "epoch_cal"))
        epoch_mpc == Strip(Cell(row, "epoch_mpc"))
        epoch == IF epoch0 = NULL /\ epoch_mjd # NULL
                 THEN Some(RAdd(epoch_mjd[1], JdOffset)) ELSE epoch0
        usePacked == epoch = NULL /\ epoch_mpc # EMPTY /\ epoch_cal = NULL
        packed == MpcPackedToDate(epoch_mpc)
    IN  IF usePacked /\ MpcPackedRaises(epoch_mpc)
        THEN [raises |-> TRUE, epoch |-> epoch, epoch_mjd |-> epoch_mjd,
              epoch_cal |-> epoch_cal]
        ELSE IF usePacked /\ packed # NULL
        THEN [raises |-> FALSE,
              epoch |-> Some(RAdd(DateToMjd(packed[1]), JdOffset)),
              epoch_mjd |-> Some(DateToMjd(packed[1])),
              epoch_cal |-> packed]
        ELSE [raises |-> FALSE, epoch |-> epoch, epoch_mjd |-> epoch_mjd,
              epoch_cal |-> IF usePacked THEN packed ELSE epoch_cal]

\* generate_sql.mjd_to_date: None where the date would leave date's range
GenMjdToDate(mjd) == IF MjdToDateRaises(mjd) THEN NULL ELSE Some(MjdToDate(mjd))

\* The orbital derivation of generate_sql.
GenDerive(row, epoch, epoch_cal) ==
    LET e == Float2(row, "e", "eccentricity")
        a == Float2(row, "a", "semi_major_axis")
        q0 == ParseFloat(Cell(row, "q"))
        ad0 == ParseFloat(Cell(row, "ad"))
        ma == Float2(row, "ma", "mean_anomaly")
        n == Float2(row, "n", "mean_motion")
        tp0 == ParseFloat(Cell(row, "tp"))
        tp_cal0 == ParseDate(Cell(row, "tp_cal"))
        per0 == ParseFloat(Cell(row, "per"))
        per_y0 == ParseFloat(Cell(row, "per_y"))
        derivePer == per0 = NULL /\ Truthy(n)
        per == IF derivePer THEN Some(RDiv(F(360), n[1])) ELSE per0
        per_y == IF derivePer
                 THEN (IF Truthy(per) THEN Some(RDiv(per[1], DaysPerYear)) ELSE NULL)
                 ELSE per_y0
        deriveTp == tp0 = NULL /\ epoch # NULL /\ Truthy(n) /\ ma # NULL
        tp_jd == RSub(epoch[1], RDiv(ma[1], n[1]))
        tp_mjd == RSub(tp_jd, JdOffset)
        tp_cal1 == IF deriveTp THEN GenMjdToDate(tp_mjd) ELSE tp_cal0
    IN  [e |-> e, a |-> a, ma |-> ma, n |-> n,
         q |-> IF q0 = NULL /\ a # NULL /\ e # NULL
               THEN Some(RMul(a[1], RSub(F(1), e[1]))) ELSE q0,
         ad |-> IF ad0 = NULL /\ a # NULL /\ e # NULL
                THEN Some(RMul(a[1], RAdd(F(1), e[1]))) ELSE ad0,
         per |-> per, per_y |-> per_y,
         tp |-> IF deriveTp THEN Some(tp_jd) ELSE tp0,
         tp_cal |-> IF tp_cal1 # NULL THEN tp_cal1
                    ELSE IF epoch_cal # NULL THEN epoch_cal ELSE Some(Today)]

\* The values of the row's orbit as the loop holds them before it stores
\* them: what the merge receives.
GenOrbitLocals(row, orbit_id, id_internal, cls) ==
    LET ep == GenRowEpoch(row)
        d == GenDerive(row, ep.epoch, ep.epoch_cal)
    IN  [c \in OrbCols |->
          CASE c = "id_orbita" -> Some(orbit_id)
            [] c = "id_internal" -> Some(id_internal)
            [] c = "class" -> Some(cls)
            [] c = "equinox" ->
                 LET x == Strip(IF Cell(row, "equinox") = EMPTY THEN J2000
                                ELSE Cell(row, "equinox"))
                 IN  Some(IF x = EMPTY THEN J2000 ELSE x)
            [] c = "epoch" -> ep.epoch
            [] c = "epoch_mjd" -> ep.epoch_mjd
            [] c = "epoch_cal" -> ep.epoch_cal
            [] c = "rms" -> Float2(row, "rms", "rms_residual")
            [] c = "i" -> Float2(row, "i", "inclination")
            [] c = "om" -> Float2(row, "om", "long_asc_node")
            [] c = "w" -> Float2(row, "w", "arg_perihelion")
            [] c \in {"e", "a", "ma", "n", "q", "ad", "per", "per_y", "tp", "tp_cal"} -> d[c]
            [] c = "orbit_uncertainty" -> ParseInt(Cell(row, "uncertainty"))
            [] c = "condition_code" -> NULL
            [] OTHER -> ParseFloat(Cell(row, c))]

\* The entry stored for an orbit id not seen before.
GenNewOrbit(p) ==
    [c \in OrbCols |->
        CASE c = "epoch" ->
               IF p.epoch # NULL THEN p.epoch
               ELSE IF p.epoch_mjd # NULL THEN p.epoch_mjd ELSE Some(F(0))
          [] c \in OrbZeroCols \ {"epoch"} -> OrZero(p[c])
          [] c = "class" -> IF p[c] = Some(EMPTY) THEN Some(NEA) ELSE p[c]
          [] OTHER -> p[c]]

\* The merge of a row's values into the entry already held for its orbit id.
GenMergeOrbit(orb, p) ==
    [c \in OrbCols |->
        CASE c \in {"id_orbita", "id_internal", "condition_code"} -> orb[c]
          [] c \in {"epoch_cal", "tp_cal"} -> MergeDate(orb[c], p[c])
          [] c \in OrbTextCols -> MergeField(orb[c], p[c])
          [] OTHER -> MergeNumeric(orb[c], p[c])]

\* Everything one iteration computes from the row alone.
ParseGenRow(row) ==
    LET neo_id == Strip(Cell(row, "id"))
        spkid == ParseInt(Cell(row, "spkid"))
        mpc_des == Strip(Cell(row, "designation"))
        mpc_full == Strip(Cell(row, "designation_full"))
        orbit_type == Strip(Cell(row, "orbit_type"))
        cls0 == Strip(Cell(row, "class"))
        cls == IF cls0 = EMPTY /\ orbit_type # EMPTY THEN Trunc(orbit_type, 20) ELSE cls0
        desc == Strip(IF Cell(row, "class_description") # EMPTY
                      THEN Cell(row, "class_description")
                      ELSE IF orbit_type # EMPTY THEN orbit_type ELSE cls)
        oid == GenOrbitId(row)
    IN  [row |-> row,
         neo_id |-> neo_id,
         spkid |-> spkid,
         mpc_key |-> Lower(Strip(FirstOf(<<mpc_full, mpc_des, neo_id>>))),
         cls |-> cls,
         cls_desc |-> IF desc # EMPTY THEN desc ELSE cls,
         ast |-> GenAsteroid(row, 0, neo_id, spkid),
         orbit_id |-> oid,
         raises |-> oid # NULL /\ GenRowEpoch(row).raises,
         orb |-> GenOrbitLocals(row, EMPTY, 0, cls)]

EmptyMap == [x \in {} |-> 0]

\* Rows read from one file.
MaxGenRows == 2

\* The locals at the top of the row loop.
StartGen ==
    [pc |-> "rows", class_map |-> EmptyMap, neo_map |-> EmptyMap,
     spk_map |-> EmptyMap, mpc_map |-> EmptyMap, next_id |-> 1,
     asteroids |-> EmptyMap, orbits |-> EmptyMap, rows |-> 0, resolved |-> {},
     step |-> [op |-> "none"]]

\* One iteration of the row loop.  resolved and step are a history of the
\* keys resolved and of what the iteration did; the loop does not read them.
GenRow(pr) ==
    /\ gen.pc = "rows"
    /\ gen.rows < MaxGenRows
    /\ LET res == GenResolve(gen.neo_map, gen.spk_map, gen.mpc_map, gen.next_id,
                             pr.neo_id, pr.spkid, pr.mpc_key)
           id == res.id
           cm == IF pr.cls # EMPTY THEN SetDefault(gen.class_map, pr.cls, pr.cls_desc)
                 ELSE gen.class_map
           newAst == [pr.ast EXCEPT !["id_internal"] = Some(id)]
           asts == IF id \in DOMAIN gen.asteroids
                   THEN MapPut(gen.asteroids, id, GenMergeAsteroid(gen.asteroids[id], newAst))
                   ELSE MapPut(gen.asteroids, id, newAst)
           oid == pr.orbit_id
           p == [pr.orb EXCEPT !["id_orbita"] = oid, !["id_internal"] = Some(id)]
           branch == IF oid = NULL THEN "none"
                     ELSE IF pr.raises THEN "raise"
                     ELSE IF oid[1] \notin DOMAIN gen.orbits THEN "new"
                     ELSE IF gen.orbits[oid[1]]["id_internal"] # Some(id) THEN "skip"
                     ELSE "merge"
           orbs == CASE branch = "new" -> MapPut(gen.orbits, oid[1], GenNewOrbit(p))
                     [] branch = "merge" ->
                          MapPut(gen.orbits, oid[1], GenMergeOrbit(gen.orbits[oid[1]], p))
                     [] OTHER -> gen.orbits
       IN  gen' = [pc |-> IF branch = "raise" THEN "raised" ELSE "rows",
                   class_map |-> cm, neo_map |-> res.neo_map,
                   spk_map |-> res.spk_map, mpc_map |-> res.mpc_map,
                   next_id |-> res.next_id, asteroids |-> asts, orbits |-> orbs,
                   rows |-> gen.rows + 1,
                   resolved |-> gen.resolved \cup {<<pr.neo_id, pr.spkid, id>>},
                   step |-> [op |-> "row", row |-> pr.row, id |-> id, cls |-> pr.cls,
                             cls_desc |-> pr.cls_desc, branch |-> branch,
                             orbit_id |-> oid, locals |-> p]]
    /\ UNCHANGED <<asteroid, orbit, class_orbital, load_error, collation, run, last,
                   hdr, call, gui, neo_csv, mpcorb>>

\* return class_map, asteroids, orbits
GenReturn ==
    /\ gen.pc = "rows"
    /\ gen' = [gen EXCEPT !.pc = "returned", !.step = [op |-> "return"]]
    /\ UNCHANGED <<asteroid, orbit, class_orbital, load_error, collation, run, last,
                   hdr, call, gui, neo_csv, mpcorb>>

\* Rows of a file for generate_sql: every combination of two spellings of
\* one id (or none), an SPK-id (or none) and a designation (or none); rows
\* that carry a class with one of two descriptions; rows that name an orbit.
GenKeyRow(i, k, d) ==
    [f \in {"id", "spkid", "designation"} |->
        CASE f = "id" -> i [] f = "spkid" -> k [] f = "designation" -> d]
GenClassRow(c, cd, o) ==
    [f \in {"id", "spkid", "class", "class_description", "orbit_id", "n", "epoch_mpc"} |->
        CASE f = "id" -> <<"a">> [] f = "spkid" -> <<"1">> [] f = "class" -> c
          [] f = "class_description" -> cd [] f = "orbit_id" -> o
          [] f = "n" -> <<"2">> [] f = "epoch_mpc" -> IF o = <<"o2">> THEN <<"K", "2", "5", "B", "sup2">> ELSE EMPTY]
GenRows ==
    {GenKeyRow(i, k, d) : i \in {EMPTY, <<"a">>, <<"A", " ">>},
                          k \in {EMPTY, <<"1">>}, d \in {EMPTY, <<"d">>}}
    \cup {GenClassRow(<<"APO">>, <<"x">>, <<"o1">>), GenClassRow(<<"APO">>, <<"y">>, EMPTY),
          GenClassRow(EMPTY, <<"x">>, <<"o1">>), GenClassRow(<<"b">>, EMPTY, <<"o2">>)}
ParsedGenRows == {ParseGenRow(row) : row \in GenRows}

InitGen ==
    /\ asteroid = {}
    /\ orbit = {}
    /\ class_orbital = {}
    /\ load_error = Some(0)
    /\ collation = TRUE
    /\ run = [r \in Runs |-> IdleRun]
    /\ last = [op |-> "none"]
    /\ hdr = [pc |-> "idle"]
    /\ gen = StartGen
    /\ call = IdleCall
    /\ gui = IdleGui
    /\ neo_csv = IdleNeoCsv
    /\ mpcorb = IdleMpcorb

NextGen == (\E pr \in ParsedGenRows : GenRow(pr)) \/ GenReturn

SpecGen == InitGen /\ [][NextGen]_vars

\* Rows that differ in class code, description and orbit type only; none
\* names an orbit.
ClassRow(c, cd, ot) ==
    [f \in {"id", "spkid", "class", "class_description", "orbit_type"} |->
        CASE f = "id" -> <<"a">> [] f = "spkid" -> <<"1">> [] f = "class" -> c
          [] f = "class_description" -> cd [] f = "orbit_type" -> ot]
ClassRows ==
    {ClassRow(c, cd, ot) : c \in {EMPTY, <<"A">>, <<"a">>, <<"b">>},
                           cd \in {EMPTY, <<"x">>, <<"y">>},
                           ot \in {EMPTY, <<"B">>}}
ParsedClassRows == {ParseRow(row) : row \in ClassRows}
ParsedGenClassRows == {ParseGenRow(row) : row \in ClassRows}

LoadClass(r) ==
    \E pr \in ParsedClassRows :
        /\ run[r].rows < MaxRows
        /\ LoadRow(r, pr, "none", "ok")

GenClass == \E pr \in ParsedGenClassRows : GenRow(pr)

\* Either load_neo_mpcorb_csv runs against a database that holds no class,
\* the default class or class A, or build_data_from_csv runs.
InitClass ==
    /\ asteroid = {}
    /\ orbit = {}
    /\ class_orbital \in {{}, {NeaClass},
                          {[class |-> <<"A">>, class_description |-> <<"x">>]}}
    /\ load_error = Some(0)
    /\ collation \in BOOLEAN
    /\ run = [r \in Runs |-> IdleRun]
    /\ last = [op |-> "none"]
    /\ hdr = [pc |-> "idle"]
    /\ gen \in {IdleGen, StartGen}
    /\ call = IdleCall
    /\ gui = IdleGui
    /\ neo_csv = IdleNeoCsv
    /\ mpcorb = IdleMpcorb

NextClass ==
    \/ (gen.pc = "idle" /\ StartRun(1, {"header"}))
    \/ LoadClass(1)
    \/ Finish(1)
    \/ GenClass
    \/ GenReturn

SpecClass == InitClass /\ [][NextClass]_vars

----------------------------------------------------------------------------
(* Calls of the helpers on their own: call holds the argument, then the    *)
(* function applied and what it returned.                                  *)

\* The elements as parsed from the row, before the derivation step.
DeriveInputs(row, ep) ==
    [e |-> Float2(row, "e", "eccentricity"),
     a |-> Float2(row, "a", "semi_major_axis"),
     ma |-> Float2(row, "ma", "mean_anomaly"),
     n |-> Float2(row, "n", "mean_motion"),
     q |-> ParseFloat(Cell(row, "q")),
     ad |-> ParseFloat(Cell(row, "ad")),
     per |-> ParseFloat(Cell(row, "per")),
     per_y |-> ParseFloat(Cell(row, "per_y")),
     tp |-> ParseFloat(Cell(row, "tp")),
     tp_cal |-> ParseDate(Cell(row, "tp_cal")),
     epoch |-> ep.epoch,
     epoch_cal |-> ep.epoch_cal]

\* Lines 623-682 of app_sql_client on one row.
DeriveCall ==
    /\ call.pc = "input" /\ call.kind = "row"
    /\ LET ep == RowEpoch(call.arg)
           d == Derive(call.arg, ep.epoch, ep.epoch_cal)
       IN  call' = [pc |-> "done", kind |-> "row", fn |-> "load_neo_mpcorb_csv",
                    arg |-> call.arg,
                    given |-> DeriveInputs(call.arg, ep), raises |-> d.raises,
                    out |-> d]
    /\ UNCHANGED <<asteroid, orbit, class_orbital, load_error, collation, run, last,
                   hdr, gen, gui, neo_csv, mpcorb>>

\* Lines 316-378 of generate_sql on one row.
GenDeriveCall ==
    /\ call.pc = "input" /\ call.kind = "row"
    /\ LET ep == GenRowEpoch(call.arg)
           d == GenDerive(call.arg, ep.epoch, ep.epoch_cal)
       IN  call' = [pc |-> "done", kind |-> "row", fn |-> "build_data_from_csv",
                    arg |-> call.arg,
                    given |-> DeriveInputs(call.arg, ep), raises |-> FALSE,
                    out |-> d]
    /\ UNCHANGED <<asteroid, orbit, class_orbital, load_error, collation, run, last,
                   hdr, gen, gui, neo_csv, mpcorb>>

\* Rows for the derivation: each element is absent or present, n is absent,
\* zero, two or a millionth, the epoch absent, zero or a Julian date.
OptCell(t) == {EMPTY, <<t>>}
DeriveRows ==
    {[f \in {"a", "e", "q", "ad", "n", "per", "per_y", "ma", "epoch", "tp", "tp_cal"} |->
        CASE f = "a" -> ae[1] [] f = "e" -> ae[2] [] f = "q" -> qad[1]
          [] f = "ad" -> qad[2] [] f = "n" -> n [] f = "per" -> per
          [] f = "per_y" -> per_y [] f = "ma" -> ma [] f = "epoch" -> epoch
          [] f = "tp" -> tp [] f = "tp_cal" -> tp_cal]
     : ae \in {<<EMPTY, EMPTY>>, <<<<"2.5">>, EMPTY>>, <<<<"2.5">>, <<"0.5">>>>},
       qad \in {<<EMPTY, EMPTY>>, <<<<"1">>, EMPTY>>, <<<<"1">>, <<"3">>>>},
       n \in {EMPTY, <<"0">>, <<"2">>, <<"1e-6">>},
       per \in OptCell("10"), per_y \in OptCell("3"), ma \in OptCell("99"),
       epoch \in {EMPTY, <<"0">>, <<"2460000.5">>},
       tp \in OptCell("5"), tp_cal \in OptCell("2020-01-01")}

InitCall(args) ==
    /\ asteroid = {}
    /\ orbit = {}
    /\ class_orbital = {}
    /\ load_error = Some(0)
    /\ collation = TRUE
    /\ run = [r \in Runs |-> IdleRun]
    /\ last = [op |-> "none"]
    /\ hdr = [pc |-> "idle"]
    /\ gen = IdleGen
    /\ call \in args
    /\ gui = IdleGui
    /\ neo_csv = IdleNeoCsv
    /\ mpcorb = IdleMpcorb

InitDerive == InitCall({[pc |-> "input", kind |-> "row", arg |-> row] : row \in DeriveRows})

NextDerive == DeriveCall \/ GenDeriveCall

SpecDerive == InitDerive /\ [][NextDerive]_vars

\* mpc_packed_to_date on one string (the three copies of the function are the
\* same code).
MpcPackedCall ==
    /\ call.pc = "input" /\ call.kind = "packed"
    /\ call' = [pc |-> "done", kind |-> "packed", fn |-> "mpc_packed_to_date",
                arg |-> call.arg, raises |-> MpcPackedRaises(call.arg),
                out |-> IF MpcPackedRaises(call.arg) THEN NULL
                        ELSE MpcPackedToDate(call.arg)]
    /\ UNCHANGED <<asteroid, orbit, class_orbital, load_error, collation, run, last,
                   hdr, gen, gui, neo_csv, mpcorb>>

\* Strings of five characters, one from each of five small sets, and the
\* same strings inside blanks, cut short or one too long.
PackedChars ==
    <<{"K", "I", "X"}, {"2", "sup2", "B"}, {"5", "4", "sup2"},
      {"B", "2", "0", "M", "sup2", "b"}, {"L", "9", "W", "T", "sup2"}>>
PackedFive ==
    {<<c1, c2, c3, c4, c5>> : c1 \in PackedChars[1], c2 \in PackedChars[2],
                              c3 \in PackedChars[3], c4 \in PackedChars[4],
                              c5 \in PackedChars[5]}
PackedArgs ==
    PackedFive
    \cup {<<" ", "K", "2", "5", "B", "L", " ">>, <<"K", "2", "5", "B">>,
          <<"K", "2", "5", "B", "L", "L">>, <<"K", " ", "5", "B", "L">>, EMPTY}

InitPacked == InitCall({[pc |-> "input", kind |-> "packed", arg |-> x] : x \in PackedArgs})

NextPacked == MpcPackedCall

SpecPacked == InitPacked /\ [][NextPacked]_vars

\* mjd_to_date(date_to_mjd(d)) in app_sql_client.
DateRoundTripCall ==
    /\ call.pc = "input" /\ call.kind = "date"
    /\ LET mjd == DateToMjd(call.arg)
       IN  call' = [pc |-> "done", kind |-> "date", fn |-> "app_sql_client",
                    arg |-> call.arg, mid |-> Some(mjd),
                    raises |-> MjdToDateRaises(mjd),
                    out |-> IF MjdToDateRaises(mjd) THEN NULL ELSE Some(MjdToDate(mjd))]
    /\ UNCHANGED <<asteroid, orbit, class_orbital, load_error, collation, run, last,
                   hdr, gen, gui, neo_csv, mpcorb>>

\* mjd_to_date(date_to_mjd(d)) in generate_sql.
GenDateRoundTripCall ==
    /\ call.pc = "input" /\ call.kind = "date"
    /\ LET mjd == DateToMjd(call.arg)
       IN  call' = [pc |-> "done", kind |-> "date", fn |-> "generate_sql",
                    arg |-> call.arg, mid |-> Some(mjd), raises |-> FALSE,
                    out |-> GenMjdToDate(mjd)]
    /\ UNCHANGED <<asteroid, orbit, class_orbital, load_error, collation, run, last,
                   hdr, gen, gui, neo_csv, mpcorb>>

\* date_to_mjd(mjd_to_date(m)) in app_sql_client: mjd_to_date raises
\* OverflowError past date.max.
MjdRoundTripCall ==
    /\ call.pc = "input" /\ call.kind = "mjd"
    /\ LET m == F(call.arg)
       IN  call' = [pc |-> "done", kind |-> "mjd", fn |-> "app_sql_client",
                    arg |-> call.arg,
                    mid |-> IF MjdToDateRaises(m) THEN NULL ELSE Some(MjdToDate(m)),
                    raises |-> MjdToDateRaises(m),
                    out |-> IF MjdToDateRaises(m) THEN NULL
                            ELSE Some(DateToMjd(MjdToDate(m)))]
    /\ UNCHANGED <<asteroid, orbit, class_orbital, load_error, collation, run, last,
                   hdr, gen, gui, neo_csv, mpcorb>>

\* date_to_mjd(mjd_to_date(m)) in generate_sql: mjd_to_date returns None past
\* date.max and date_to_mjd(None) raises TypeError.
GenMjdRoundTripCall ==
    /\ call.pc = "input" /\ call.kind = "mjd"
    /\ LET d == GenMjdToDate(F(call.arg))
       IN  call' = [pc |-> "done", kind |-> "mjd", fn |-> "generate_sql",
                    arg |-> call.arg, mid |-> d, raises |-> d = NULL,
                    out |-> IF d = NULL THEN NULL ELSE Some(DateToMjd(d[1]))]
    /\ UNCHANGED <<asteroid, orbit, class_orbital, load_error, collation, run, last,
                   hdr, gen, gui, neo_csv, mpcorb>>

\* Dates from 1858-11-17 on: the days 1, 17, 28 to 31 of every month of a few
\* years, the last of them 9999.
MjdYears == {1858, 1859, 1900, 2000, 2024, 2025, 9999}
MjdDates ==
    {dt \in {<<y, mo, d>> : y \in MjdYears, mo \in 1..12, d \in {1, 17, 28, 29, 30, 31}} :
        ValidDate(dt[1], dt[2], dt[3]) /\ ToOrdinal(dt) >= ToOrdinal(Mjd0)}

\* date.max as a day count
LastMjd == MaxOrdinal - ToOrdinal(Mjd0)

\* Day counts: the first ones, some later ones, and the counts around the
\* last date.
MaxSmallMjd == 60
MjdCounts ==
    0..MaxSmallMjd \cup {365, 366, 51544, 60000, LastMjd - 1, LastMjd, LastMjd + 1,
                         LastMjd + MaxSmallMjd}

InitMjd ==
    InitCall({[pc |-> "input", kind |-> "date", arg |-> d] : d \in MjdDates}
             \cup {[pc |-> "input", kind |-> "mjd", arg |-> m] : m \in MjdCounts})

NextMjd ==
    DateRoundTripCall \/ GenDateRoundTripCall \/ MjdRoundTripCall \/ GenMjdRoundTripCall

SpecMjd == InitMjd /\ [][NextMjd]_vars

----------------------------------------------------------------------------
(* The windows: the main thread runs the event handlers and the poll       *)
(* function, each handler of a long operation starts a worker thread.      *)
(* touched is a history of which thread used a widget or a message box.    *)

Tools == {"sql_client", "monitoring", "alert_creator"}

\* Workers started in one session of a window.
MaxWorkers == 3

\* Chunks load_neo_mpcorb_csv prints during one import.
MaxOutput == 2

\* The window after main() has built it. applied is what the main thread of
\* app_sql_client has done for the import tab, in order: the "[INFO]" line of
\* on_run, each message poll_queue wrote to the output box, and "__DONE__"
\* where poll_queue re-enabled the button and set the status. out counts the
\* chunks the running import has printed.
GuiStart(tool) ==
    [pc |-> "mainloop", tool |-> tool, workers |-> <<>>, q |-> <<>>,
     run_button |-> "normal", touched |-> {}, status |-> "ready",
     applied |-> <<>>, out |-> 0]

Touch(thread, what) == gui.touched \cup {<<thread, what>>}

\* app_sql_client on_run: a missing CSV path ends in a message box; else the
\* handler disables the button, sets the status, writes the "[INFO]" line to
\* the output box and starts the worker. A disabled button runs no command.
GuiOnRunEnabled ==
    /\ gui.pc = "mainloop" /\ gui.tool = "sql_client"
    /\ gui.run_button = "normal"
    /\ Len(gui.workers) < MaxWorkers
    /\ \E csv_ok \in BOOLEAN :
          gui' = IF csv_ok
                 THEN [gui EXCEPT !.workers = Append(@, "running"),
                                  !.status = "loading",
                                  !.applied = Append(@, "[INFO]"),
                                  !.out = 0,
                                  !.touched = Touch("main", "widget")]
                 ELSE [gui EXCEPT !.touched = Touch("main", "showwarning")]
    /\ UNCHANGED <<asteroid, orbit, class_orbital, load_error, collation, run, last,
                   hdr, gen, call, neo_csv, mpcorb>>

GuiOnRun ==
    /\ gui.pc = "mainloop" /\ gui.tool = "sql_client"
    /\ gui.run_button = "normal"
    /\ Len(gui.workers) < MaxWorkers
    /\ \E csv_ok \in BOOLEAN :
          gui' = IF csv_ok
                 THEN [gui EXCEPT !.run_button = "disabled",
                                  !.workers = Append(@, "running"),
                                  !.status = "loading",
                                  !.applied = Append(@, "[INFO]"),
                                  !.out = 0,
                                  !.touched = Touch("main", "widget")]
                 ELSE [gui EXCEPT !.touched = Touch("main", "showwarning")]
    /\ UNCHANGED <<asteroid, orbit, class_orbital, load_error, collation, run, last,
                   hdr, gen, call, neo_csv, mpcorb>>

\* The worker of on_run, first statement: connect(cfg) returns a connection,
\* or raises and the except clause puts "[ERRO] ..." (conn stays None).
GuiLoadWorkerConnect(w) ==
    /\ gui.pc = "mainloop" /\ gui.tool = "sql_client"
    /\ w \in DOMAIN gui.workers /\ gui.workers[w] = "running"
    /\ \E connected \in BOOLEAN :
          gui' = IF connected
                 THEN [gui EXCEPT !.workers[w] = "load"]
                 ELSE [gui EXCEPT !.workers[w] = "finally",
                                  !.q = Append(@, "[ERRO]")]
    /\ UNCHANGED <<asteroid, orbit, class_orbital, load_error, collation, run, last,
                   hdr, gen, call, neo_csv, mpcorb>>

\* load_neo_mpcorb_csv prints with stdout redirected: QueueWriter.write puts
\* each chunk on the queue.
GuiLoadWorkerPrint(w) ==
    /\ gui.pc = "mainloop" /\ gui.tool = "sql_client"
    /\ w \in DOMAIN gui.workers /\ gui.workers[w] = "load"
    /\ gui.out < MaxOutput
    /\ gui' = [gui EXCEPT !.q = Append(@, "output"), !.out = @ + 1]
    /\ UNCHANGED <<asteroid, orbit, class_orbital, load_error, collation, run, last,
                   hdr, gen, call, neo_csv, mpcorb>>

\* load_neo_mpcorb_csv returns, or raises and the except clause puts
\* "[ERRO] ..."; the finally clause follows both.
GuiLoadWorker(w) ==
    /\ gui.pc = "mainloop" /\ gui.tool = "sql_client"
    /\ w \in DOMAIN gui.workers /\ gui.workers[w] = "load"
    /\ \E raised \in BOOLEAN :
          gui' = IF raised
                 THEN [gui EXCEPT !.workers[w] = "close",
                                  !.q = Append(@, "[ERRO]")]
                 ELSE [gui EXCEPT !.workers[w] = "close"]
    /\ UNCHANGED <<asteroid, orbit, class_orbital, load_error, collation, run, last,
                   hdr, gen, call, neo_csv, mpcorb>>

\* The finally clause of that worker, first statement: conn.close() when
\* connect returned.
GuiLoadWorkerClose(w) ==
    /\ gui.pc = "mainloop" /\ gui.tool = "sql_client"
    /\ w \in DOMAIN gui.workers /\ gui.workers[w] = "close"
    /\ gui' = [gui EXCEPT !.workers[w] = "finally"]
    /\ UNCHANGED <<asteroid, orbit, class_orbital, load_error, collation, run, last,
                   hdr, gen, call, neo_csv, mpcorb>>

\* The last statement of the worker.
GuiLoadWorkerDoneFirst(w) ==
    /\ gui.pc = "mainloop" /\ gui.tool = "sql_client"
    /\ w \in DOMAIN gui.workers /\ gui.workers[w] = "finally"
    /\ gui' = [gui EXCEPT !.workers[w] = "finished", !.q = <<"__DONE__">> \o @]
    /\ UNCHANGED <<asteroid, orbit, class_orbital, load_error, collation, run, last,
                   hdr, gen, call, neo_csv, mpcorb>>

GuiLoadWorkerDone(w) ==
    /\ gui.pc = "mainloop" /\ gui.tool = "sql_client"
    /\ w \in DOMAIN gui.workers /\ gui.workers[w] = "finally"
    /\ gui' = [gui EXCEPT !.workers[w] = "finished", !.q = Append(@, "__DONE__")]
    /\ UNCHANGED <<asteroid, orbit, class_orbital, load_error, collation, run, last,
                   hdr, gen, call, neo_csv, mpcorb>>

\* app_monitoring refresh_monitor: reads the connection fields and starts
\* the worker.
GuiRefreshMonitor ==
    /\ gui.pc = "mainloop" /\ gui.tool = "monitoring"
    /\ Len(gui.workers) < MaxWorkers
    /\ gui' = [gui EXCEPT !.workers = Append(@, "running"),
                          !.touched = Touch("main", "widget")]
    /\ UNCHANGED <<asteroid, orbit, class_orbital, load_error, collation, run, last,
                   hdr, gen, call, neo_csv, mpcorb>>

\* The worker of refresh_monitor.
GuiMonitorWorker(w) ==
    /\ gui.pc = "mainloop" /\ gui.tool = "monitoring"
    /\ w \in DOMAIN gui.workers /\ gui.workers[w] = "running"
    /\ \E kind \in {"stats", "error"} :
          gui' = [gui EXCEPT !.workers[w] = "finished", !.q = Append(@, kind)]
    /\ UNCHANGED <<asteroid, orbit, class_orbital, load_error, collation, run, last,
                   hdr, gen, call, neo_csv, mpcorb>>

\* poll_queue of app_sql_client and of app_monitoring: takes every message
\* off the queue and applies it to the widgets (touched records which kinds
\* of message the main thread has applied).
GuiPollQueue ==
    /\ gui.pc = "mainloop" /\ gui.tool \in {"sql_client", "monitoring"}
    /\ gui.q # <<>>
    /\ gui' = [gui EXCEPT !.q = <<>>,
                          !.run_button =
                              IF \E k \in DOMAIN gui.q : gui.q[k] = "__DONE__"
                              THEN "normal" ELSE @,
                          !.status =
                              IF \E k \in DOMAIN gui.q : gui.q[k] = "__DONE__"
                              THEN "finished" ELSE @,
                          !.applied =
                              IF gui.tool = "sql_client" THEN @ \o gui.q ELSE @,
                          !.touched = gui.touched \cup
                              {<<"main", gui.q[k]>> : k \in DOMAIN gui.q}]
    /\ UNCHANGED <<asteroid, orbit, class_orbital, load_error, collation, run, last,
                   hdr, gen, call, neo_csv, mpcorb>>

\* app_alert_creator simulate_alerts: reads the connection fields and starts
\* the worker.
GuiSimulateAlerts ==
    /\ gui.pc = "mainloop" /\ gui.tool = "alert_creator"
    /\ Len(gui.workers) < MaxWorkers
    /\ gui' = [gui EXCEPT !.workers = Append(@, "running"),
                          !.touched = Touch("main", "widget")]
    /\ UNCHANGED <<asteroid, orbit, class_orbital, load_error, collation, run, last,
                   hdr, gen, call, neo_csv, mpcorb>>

\* The worker of simulate_alerts: it ends in messagebox.showinfo, or in
\* messagebox.showerror when a statement raised.
GuiSimulateWorker(w) ==
    /\ gui.pc = "mainloop" /\ gui.tool = "alert_creator"
    /\ w \in DOMAIN gui.workers /\ gui.workers[w] = "running"
    /\ \E box \in {"showinfo", "showerror"} :
          gui' = [gui EXCEPT !.workers[w] = "finished",
                             !.touched = Touch("worker", box)]
    /\ UNCHANGED <<asteroid, orbit, class_orbital, load_error, collation, run, last,
                   hdr, gen, call, neo_csv, mpcorb>>

InitGui ==
    /\ asteroid = {}
    /\ orbit = {}
    /\ class_orbital = {}
    /\ load_error = Some(0)
    /\ collation = TRUE
    /\ run = [r \in Runs |-> IdleRun]
    /\ last = [op |-> "none"]
    /\ hdr = [pc |-> "idle"]
    /\ gen = IdleGen
    /\ call = IdleCall
    /\ gui \in {GuiStart(tool) : tool \in Tools}
    /\ neo_csv = IdleNeoCsv
    /\ mpcorb = IdleMpcorb

NextGui ==
    \/ GuiOnRun
    \/ GuiRefreshMonitor
    \/ GuiSimulateAlerts
    \/ GuiPollQueue
    \/ \E w \in 1..MaxWorkers :
          \/ GuiLoadWorkerConnect(w)
          \/ GuiLoadWorkerPrint(w)
          \/ GuiLoadWorker(w)
          \/ GuiLoadWorkerClose(w)
          \/ GuiLoadWorkerDone(w)
          \/ GuiMonitorWorker(w)
          \/ GuiSimulateWorker(w)

SpecGui == InitGui /\ [][NextGui]_vars

----------------------------------------------------------------------------
(* insercao_csv: upsert_asteroid, insert_orbit_if_new and load_neo_csv.    *)
(* The parsers, upsert_class, load_existing_maps and log_error are the     *)
(* same functions as in app_sql_client.                                    *)

\* The SET list of both UPDATE statements of upsert_asteroid: the key column
\* the row was not found by is COALESCE(col, ?), every other column is "= ?".
NeoCsvAsteroidSet(row, p, fillKey) ==
    [c \in AstCols |->
        CASE c = fillKey -> Coalesce(row[c], p[c])
          [] c \in {"id_internal", "spkid", "neo_id"} -> row[c]
          [] OTHER -> p[c]]

\* upsert_asteroid(cur, id_internal, neo_id, spkid, ...) of insercao_csv.
NeoCsvUpsertAsteroid(ci, tbl, p) ==
    LET bySpk == {r \in tbl : SqlNumEq(r["spkid"], p["spkid"])}
        byNeo == {r \in tbl : SqlTextEq(ci, r["neo_id"], p["neo_id"])}
        upd(hit, fillKey) ==
            LET t == (tbl \ hit) \cup {NeoCsvAsteroidSet(r, p, fillKey) : r \in hit}
            IN  IF AsteroidKeysOk(ci, t)
                THEN [tbl |-> t, action |-> "update"]
                ELSE [tbl |-> tbl, action |-> "raise"]
        clash ==
            \E r \in tbl :
                \/ r["id_internal"] = p["id_internal"]
                \/ SqlTextEq(ci, r["neo_id"], p["neo_id"])
    IN  IF bySpk # {} THEN upd(bySpk, "neo_id")
        ELSE IF byNeo # {} THEN upd(byNeo, "spkid")
        ELSE IF clash THEN [tbl |-> tbl, action |-> "raise"]
        ELSE [tbl |-> tbl \cup {p}, action |-> "insert"]

\* insert_orbit_if_new of insercao_csv: an existing row gets every column of
\* the call (owner and class included, tp_cal as passed), a new one the
\* VALUES list with its defaults.
NeoCsvInsertOrbitIfNew(ci, orb, cls, p) ==
    LET hit == {r \in orb : SqlTextEq(ci, r["id_orbita"], p["id_orbita"])}
        noCls == p["class"] = Some(EMPTY)
        set(r) == [OrbitValues(p) EXCEPT !["id_orbita"] = r["id_orbita"],
                                         !["tp_cal"] = p["tp_cal"],
                                         !["class"] = p["class"]]
    IN  IF hit # {}
        THEN [orbit |-> (orb \ hit) \cup {set(r) : r \in hit},
              class_orbital |-> cls, inserted |-> FALSE]
        ELSE [orbit |-> orb \cup {OrbitValues(p)},
              class_orbital |-> IF noCls THEN UpsertClass(ci, cls, NEA, NearEarthAsteroid)
                                ELSE cls,
              inserted |-> TRUE]

\* The identity block of load_neo_csv; both keys are present here.
NeoCsvResolve(nm, sm, nid, neo_key, spkid) ==
    IF neo_key \in DOMAIN nm
    THEN [id |-> nm[neo_key], neo_map |-> nm, spk_map |-> sm, next_id |-> nid]
    ELSE IF spkid \in DOMAIN sm
    THEN [id |-> sm[spkid], neo_map |-> MapPut(nm, neo_key, sm[spkid]),
          spk_map |-> sm, next_id |-> nid]
    ELSE [id |-> nid, neo_map |-> MapPut(nm, neo_key, nid),
          spk_map |-> MapPut(sm, spkid, nid), next_id |-> nid + 1]

\* What the try block of load_neo_csv computes from the row alone.
NeoCsvParseRow(row) ==
    LET neo_id == Strip(Cell(row, "id"))
        spkid == ParseInt(Cell(row, "spkid"))
        orbit_id == Strip(Cell(row, "orbit_id"))
        cls == Strip(Cell(row, "class"))
        nm == Trunc(Strip(Cell(row, "name")), 100)
        epoch_cal == ParseDate(Cell(row, "epoch_cal"))
        tp_cal == ParseDate(Cell(row, "tp_cal"))
    IN  [neo_id |-> neo_id,
         neo_key |-> Lower(neo_id),
         spkid |-> spkid,
         orbit_id |-> orbit_id,
         cls |-> cls,
         cls_desc |-> Strip(IF Cell(row, "class_description") # EMPTY
                            THEN Cell(row, "class_description") ELSE cls),
         ast |-> [c \in AstCols |->
                   CASE c = "id_internal" -> NULL
                     [] c = "spkid" -> spkid
                     [] c = "neo_id" -> Some(neo_id)
                     [] c = "full_name" -> Some(Trunc(Strip(Cell(row, c)), 100))
                     [] c = "pdes" -> Some(Trunc(Strip(Cell(row, c)), 50))
                     [] c = "name" -> IF nm = EMPTY THEN NULL ELSE Some(nm)
                     [] c = "prefix" -> Some(Trunc(Strip(Cell(row, c)), 10))
                     [] c = "neo_flag" -> Some(Flag(row, "neo"))
                     [] c = "pha_flag" -> Some(Flag(row, "pha"))
                     [] c = "absolute_magnitude" -> OrZero(ParseFloat(Cell(row, "h")))
                     [] OTHER -> ParseFloat(Cell(row, c))],
         has_orbit |-> /\ orbit_id # EMPTY
                       /\ \/ Cell(row, "epoch_mjd") # EMPTY
                          \/ Cell(row, "epoch_cal") # EMPTY
                          \/ Cell(row, "tp_cal") # EMPTY,
         orb |-> [c \in OrbCols |->
                   CASE c = "id_orbita" -> Some(orbit_id)
                     [] c = "id_internal" -> NULL
                     [] c = "class" -> Some(cls)
                     [] c = "equinox" ->
                          Some(Strip(IF Cell(row, "equinox") = EMPTY THEN J2000
                                     ELSE Cell(row, "equinox")))
                     [] c = "epoch_cal" -> epoch_cal
                     [] c = "tp_cal" -> IF tp_cal # NULL THEN tp_cal
                                        ELSE IF epoch_cal # NULL THEN epoch_cal
                                        ELSE Some(Today)
                     [] c \in {"orbit_uncertainty", "condition_code"} -> NULL
                     [] OTHER -> ParseFloat(Cell(row, c))]]

IdleNeoCsvLocals ==
    [pc |-> "idle", has_header |-> FALSE, neo_map |-> <<>>, spk_map |-> <<>>,
     next_id |-> 0, rows |-> 0, inserted_ast |-> 0, updated_ast |-> 0,
     inserted_orb |-> 0, errors |-> 0,
     \* history: the last iteration and the rows not yet committed
     step |-> [op |-> "none"], uncommitted |-> 0]

\* load_neo_csv up to the row loop: the header, ensure_reference_data (which
\* writes only Priority and Level), the maps and the counter.
NeoCsvStart ==
    /\ neo_csv.pc = "idle"
    /\ \E kind \in {"empty", "header", "noheader"} :
         IF kind = "empty"
         THEN neo_csv' = [IdleNeoCsvLocals EXCEPT !.pc = "returned"]
         ELSE \E nm \in NeoMaps(asteroid), sm \in SpkMaps(asteroid) :
                neo_csv' = [IdleNeoCsvLocals EXCEPT
                               !.pc = "loop",
                               !.has_header = (kind = "header"),
                               !.neo_map = nm, !.spk_map = sm,
                               !.next_id = GetNextIdInternal(asteroid)]
    /\ UNCHANGED <<asteroid, orbit, class_orbital, load_error, collation, run, last,
                   hdr, gen, call, gui, mpcorb>>

\* One iteration of the row loop: the try block, the except clause with
\* log_error, and the commit on every thousandth line.  fate names the
\* statement the database rejects ("none": no statement is rejected), logfate
\* whether the INSERT of log_error is rejected (for a row without keys, whose
\* log_error runs inside the try block, the one in the except clause too).
NeoCsvRow(pr, fate, logfate) ==
    LET nc == neo_csv
        missing == pr.neo_id = EMPTY \/ pr.spkid = NULL
        C1 == UpsertClass(collation, class_orbital, pr.cls, pr.cls_desc)
        res == NeoCsvResolve(nc.neo_map, nc.spk_map, nc.next_id, pr.neo_key, pr.spkid[1])
        p == [pr.ast EXCEPT !["id_internal"] = Some(res.id)]
        ua == NeoCsvUpsertAsteroid(collation, asteroid, p)
        io == NeoCsvInsertOrbitIfNew(collation, orbit, C1,
                                     [pr.orb EXCEPT !["id_internal"] = Some(res.id)])
        stage == IF missing THEN "missing"
                 ELSE IF fate = "class" THEN "class"
                 ELSE IF fate = "asteroid" \/ ua.action = "raise" THEN "asteroid"
                 ELSE IF pr.has_orbit /\ fate = "orbit" THEN "orbit"
                 ELSE "end"
        raised == stage \in {"class", "asteroid", "orbit"}
        logged == missing \/ raised
        line_no == StartLineNo(nc.has_header) + nc.rows
        aborted == logged /\ load_error # NULL /\ logfate = "raise"
        commit == ~aborted /\ ~missing /\ CommitDue(line_no, nc.rows + 1)
        resolved == stage \in {"asteroid", "orbit", "end"}
        stored == stage \in {"orbit", "end"}
        orbited == stage = "end" /\ pr.has_orbit
    IN  /\ nc.pc = "loop"
        /\ fate = "class" => ~missing /\ pr.cls # EMPTY
        /\ fate = "asteroid" => ~missing
        /\ fate = "orbit" => stage = "orbit"
        /\ logfate = "raise" => aborted
        /\ class_orbital' = IF stored /\ pr.has_orbit THEN io.class_orbital
                            ELSE IF resolved THEN C1 ELSE class_orbital
        /\ asteroid' = IF stored THEN ua.tbl ELSE asteroid
        /\ orbit' = IF orbited THEN io.orbit ELSE orbit
        /\ load_error' = IF logged /\ load_error # NULL /\ ~aborted
                         THEN Some(load_error[1] + 1) ELSE load_error
        /\ neo_csv' =
             [nc EXCEPT
                !.pc = IF aborted THEN "aborted" ELSE @,
                !.rows = @ + 1,
                !.errors = IF missing /\ aborted THEN @ + 2
                           ELSE IF logged THEN @ + 1 ELSE @,
                !.neo_map = IF resolved THEN res.neo_map ELSE @,
                !.spk_map = IF resolved THEN res.spk_map ELSE @,
                !.next_id = IF resolved THEN res.next_id ELSE @,
                !.inserted_ast = IF stored /\ ua.action = "insert" THEN @ + 1 ELSE @,
                !.updated_ast = IF stored /\ ua.action = "update" THEN @ + 1 ELSE @,
                !.inserted_orb = IF orbited /\ io.inserted THEN @ + 1 ELSE @,
                !.uncommitted = IF commit THEN 0 ELSE @ + 1,
                !.step = [op |-> "row", stage |-> stage,
                          action |-> IF stored THEN ua.action ELSE "none",
                          id |-> IF resolved THEN Some(res.id) ELSE NULL,
                          p |-> pr.ast]]
        /\ UNCHANGED <<collation, run, last, hdr, gen, call, gui, mpcorb>>

\* The commit after the loop and the report.
NeoCsvFinish ==
    /\ neo_csv.pc = "loop"
    /\ neo_csv' = [neo_csv EXCEPT !.pc = "done", !.uncommitted = 0,
                                  !.step = [op |-> "finish"]]
    /\ UNCHANGED <<asteroid, orbit, class_orbital, load_error, collation, run, last,
                   hdr, gen, call, gui, mpcorb>>

NeoCsvRowOf(i, s, nm, o) ==
    [f \in {"id", "spkid", "name", "full_name", "diameter", "orbit_id", "epoch_mjd"} |->
        CASE f = "id" -> i [] f = "spkid" -> s [] f = "name" -> nm
          [] f = "full_name" -> nm
          [] f = "diameter" -> IF nm = <<"X">> THEN <<"10">> ELSE EMPTY
          [] f = "orbit_id" -> o
          [] f = "epoch_mjd" -> IF o = EMPTY THEN EMPTY ELSE <<"59000">>]

NeoCsvRows ==
    {NeoCsvRowOf(i, s, nm, o) :
        i \in {EMPTY, <<"a">>, <<"b">>}, s \in {EMPTY, <<"1">>},
        nm \in {EMPTY, <<"X">>, <<"Y">>}, o \in {EMPTY, <<"o1">>}}

ParsedNeoCsvRows == {NeoCsvParseRow(row) : row \in NeoCsvRows}

InitNeoCsv == Init

NeoCsvLoad ==
    \E pr \in ParsedNeoCsvRows, fate \in Fates, logfate \in LogFates :
        /\ neo_csv.pc = "loop" /\ neo_csv.rows < MaxRows
        /\ NeoCsvRow(pr, fate, logfate)

NextNeoCsv == NeoCsvStart \/ NeoCsvLoad \/ NeoCsvFinish

SpecNeoCsv == InitNeoCsv /\ [][NextNeoCsv]_vars

----------------------------------------------------------------------------
(* The delimiter sniffer.  A file is a sequence of lines, a line a sequence *)
(* of characters; "TAB" is the tab character.                              *)

Delimiters == <<";", ",", "TAB", "|">>

Range(s) == {s[k] : k \in DOMAIN s}

\* s.count(ch)
CountIn(s, ch) == Cardinality({k \in DOMAIN s : s[k] = ch})

\* not ln.strip(): the line holds nothing but white space
IsBlankLine(ln) == \A k \in DOMAIN ln : ln[k] \in {" ", "TAB"}

NonBlankLine(ln) == ~IsBlankLine(ln)

FirstLines(file, k) == SubSeq(file, 1, IF Len(file) < k THEN Len(file) ELSE k)

\* read_header_line: the first line that is not blank, "" when there is none
ReadHeaderLine(file) ==
    IF SelectSeq(file, NonBlankLine) = <<>> THEN EMPTY
    ELSE Head(SelectSeq(file, NonBlankLine))

\* header_line.split(delim)
SplitAt(s, delim) ==
    LET cuts == {k \in DOMAIN s : s[k] = delim}
        starts == {1} \cup {k + 1 : k \in cuts}
        endOf(b) == IF \E k \in cuts : k >= b
                    THEN (CHOOSE k \in cuts : k >= b /\ \A j \in cuts : j >= b => k <= j) - 1
                    ELSE Len(s)
    IN  {SubSeq(s, b, endOf(b)) : b \in starts}

\* The set of names parse_header_fields returns.  str.strip takes tabs off
\* as well as blanks.
StripWhite(s) ==
    LET keep == {k \in DOMAIN s : s[k] \notin {" ", "TAB"}}
    IN  IF keep = {} THEN EMPTY
        ELSE SubSeq(s, CHOOSE k \in keep : \A j \in keep : k <= j,
                       CHOOSE k \in keep : \A j \in keep : k >= j)
ParseHeaderFields(header_line, delim) ==
    {LStripBom(Lower(StripWhite(c))) : c \in SplitAt(header_line, delim)}

HasKeys(cols) == <<"id">> \in cols /\ <<"spkid">> \in cols

\* detect_delimiter_from_header: the first of tab, ";", ",", "|" that splits
\* the header into names with id and spkid among them, or None
HeaderOrder == <<"TAB", ";", ",", "|">>
DetectDelimiterFromHeader(file) ==
    LET header == ReadHeaderLine(file)
        ok == {k \in DOMAIN HeaderOrder : HasKeys(ParseHeaderFields(header, HeaderOrder[k]))}
    IN  IF header = EMPTY \/ ok = {} THEN NULL
        ELSE Some(HeaderOrder[CHOOSE k \in ok : \A j \in ok : k <= j])

\* The count of ch in "\n".join(lines)
RECURSIVE CountInLines(_, _)
CountInLines(lines, ch) ==
    IF lines = <<>> THEN 0 ELSE CountIn(Head(lines), ch) + CountInLines(Tail(lines), ch)

\* max(counts.items(), key=...)[0]: the first of ";", ",", tab, "|" whose
\* count no other exceeds.
MostFrequent(lines) ==
    LET best == {k \in DOMAIN Delimiters :
                   \A j \in DOMAIN Delimiters :
                      CountInLines(lines, Delimiters[j]) <= CountInLines(lines, Delimiters[k])}
    IN  Delimiters[CHOOSE k \in best : \A j \in best : k <= j]

\* A variant that goes by the counts alone, over the first five lines that
\* are not blank.
DetectDelimiterByCount(file) ==
    LET lines == FirstLines(SelectSeq(file, NonBlankLine), 5)
    IN  IF lines = <<>> THEN ";" ELSE MostFrequent(lines)

\* detect_delimiter
DetectDelimiter(file) ==
    LET lines == SelectSeq(FirstLines(file, 5), NonBlankLine)
        first == lines[1]
    IN  IF lines = <<>> THEN ";"
        ELSE IF CountIn(first, ";") > 0 /\ CountIn(first, ";") >= CountIn(first, ",")
        THEN ";"
        ELSE IF CountIn(first, "TAB") > 0 THEN "TAB"
        ELSE IF CountIn(first, ",") > 0 THEN ","
        ELSE MostFrequent(lines)

\* Lines 493-501 of load_neo_mpcorb_csv: the header line, the delimiter the
\* header gives, and detect_delimiter when it gives none.
SniffCall ==
    /\ call.pc = "input" /\ call.kind = "file"
    /\ LET header_line == ReadHeaderLine(call.arg)
           found == DetectDelimiterFromHeader(call.arg)
           fallback == header_line # EMPTY /\ found = NULL
       IN  call' = [pc |-> "done", kind |-> "file", fn |-> "detect_delimiter",
                    arg |-> call.arg, header_line |-> header_line,
                    returned |-> header_line = EMPTY, fallback |-> fallback,
                    out |-> IF fallback THEN Some(DetectDelimiter(call.arg)) ELSE found]
    /\ UNCHANGED <<asteroid, orbit, class_orbital, load_error, collation, run, last,
                   hdr, gen, gui, neo_csv, mpcorb>>

\* Lines of a file.
MaxFileLines == 6

HeadLines ==
    {EMPTY, <<"x">>, <<"x", "|", "x">>, <<"x", ";", "x">>,
     <<"x", ";", "x", ",", "x", ",", "x">>, <<"x", "TAB", "x", ",", "x", ",", "x">>,
     <<"id", ";", "spkid">>, <<"id", ",", "spkid", ";", "x">>}
MoreLines ==
    {EMPTY, <<"TAB">>, <<"x", "|", "x">>, <<"x", ",", "x", ",", "x">>}

RECURSIVE FilesOf(_)
FilesOf(n) ==
    IF n = 0 THEN {<<>>}
    ELSE FilesOf(n - 1) \cup
         {Append(f, ln) : f \in {g \in FilesOf(n - 1) : Len(g) = n - 1},
                          ln \in IF n = 1 THEN HeadLines ELSE MoreLines}

InitSniff == InitCall({[pc |-> "input", kind |-> "file", arg |-> f] : f \in FilesOf(MaxFileLines)})

NextSniff == SniffCall

SpecSniff == InitSniff /\ [][NextSniff]_vars

----------------------------------------------------------------------------
(* A run whose statements are rejected with different messages.            *)

MaxReportRows == 6

\* Messages of the database, in the order a run first meets them.
ErrTexts == <<<<"e1">>, <<"e2">>, <<"e3">>, <<"e4">>, <<"e5">>, <<"e6">>>>

ReportRows ==
    { [id |-> <<"a">>, spkid |-> <<"1">>, orbit_id |-> <<"o1">>],
      [id |-> <<"b">>, spkid |-> EMPTY, orbit_id |-> <<"o2">>,
       epoch_mpc |-> <<"K", "2", "sup2", "1", "1">>] }

ParsedReportRows == {ParseRow(row) : row \in ReportRows}

\* A row that is stored, a row on which Python raises, or a row whose
\* Asteroid statement is rejected with the first message of the run or with
\* one the run has not met yet.
LoadReport(r) ==
    \E pr \in ParsedReportRows, fate \in {"none", "asteroid"}, logfate \in LogFates,
       k \in DOMAIN ErrTexts :
        /\ run[r].pc = "loop"
        /\ run[r].rows < MaxReportRows
        /\ fate = "none" => k = 1
        /\ fate = "asteroid" =>
              /\ ~pr.orb_raises
              /\ k \in {1, Len(run[r].error_counts) + 1}
        /\ LoadRowText(r, pr, fate, logfate, ErrTexts[k])

InitReport == InitEmpty /\ load_error = Some(0) /\ collation = TRUE

NextReport == StartRun(1, {"header"}) \/ LoadReport(1) \/ Finish(1)

SpecReport == InitReport /\ [][NextReport]_vars

----------------------------------------------------------------------------
(* The same file imported twice: run 1, and after its report run 2.  call  *)
(* holds the file, a sequence of data rows.                                *)

FileRows == KeyRows \cup UNION {ScenarioFirst, ScenarioSecond}

ParsedFileRows == {ParseRow(row) : row \in FileRows}

RECURSIVE RowFiles(_)
RowFiles(n) ==
    IF n = 0 THEN {<<>>}
    ELSE RowFiles(n - 1) \cup
         {Append(f, pr) : f \in {g \in RowFiles(n - 1) : Len(g) = n - 1},
                          pr \in ParsedFileRows}

StartFile(r) ==
    /\ call.pc = "file"
    /\ r = 2 => run[1].pc = "done"
    /\ StartRun(r, {"header"})

LoadFile(r) ==
    /\ call.pc = "file"
    /\ run[r].pc = "loop"
    /\ run[r].rows < Len(call.arg)
    /\ LoadRow(r, call.arg[run[r].rows + 1], "none", "ok")

FinishFile(r) ==
    /\ call.pc = "file"
    /\ run[r].pc = "loop"
    /\ run[r].rows = Len(call.arg)
    /\ Finish(r)

InitFile ==
    /\ \E db \in InitDbs :
         /\ asteroid = db.asteroid
         /\ orbit = db.orbit
         /\ class_orbital = db.class_orbital
    /\ load_error = Some(0)
    /\ collation \in BOOLEAN
    /\ run = [r \in Runs |-> IdleRun]
    /\ last = [op |-> "none"]
    /\ hdr = [pc |-> "idle"]
    /\ gen = IdleGen
    /\ call \in {[pc |-> "file", kind |-> "import", arg |-> f] : f \in RowFiles(MaxRows)}
    /\ gui = IdleGui
    /\ neo_csv = IdleNeoCsv
    /\ mpcorb = IdleMpcorb

NextFile == \E r \in Runs : StartFile(r) \/ LoadFile(r) \/ FinishFile(r)

SpecFile == InitFile /\ [][NextFile]_vars

----------------------------------------------------------------------------
(* Files in which rows supply orbit ids of the form the loader synthesizes. *)

MpcRows ==
    {KeyRow(i, k, o) : i \in {<<"a">>, <<"b">>}, k \in {EMPTY, <<"1">>},
                       o \in {EMPTY, <<"MPC", "1">>, <<"MPC", "2">>, <<"o1">>}}

ParsedMpcRows == {ParseRow(row) : row \in MpcRows}

LoadMpc(r) ==
    \E pr \in ParsedMpcRows :
        /\ run[r].rows < MaxRows
        /\ LoadRow(r, pr, "none", "ok")

InitMpc == InitEmpty /\ load_error = Some(0) /\ collation \in BOOLEAN

NextMpc == StartRun(1, {"header"}) \/ LoadMpc(1) \/ Finish(1)

SpecMpc == InitMpc /\ [][NextMpc]_vars

----------------------------------------------------------------------------
(* The import window with its scheduling: a started worker thread keeps     *)
(* running while its calls return, and Tk calls poll_queue again 100 ms     *)
(* after each call (root.after at the end of poll_queue).                   *)

GuiLoadWorkerStep ==
    \E w \in 1..MaxWorkers :
        \/ GuiLoadWorkerConnect(w)
        \/ GuiLoadWorkerPrint(w)
        \/ GuiLoadWorker(w)
        \/ GuiLoadWorkerClose(w)
        \/ GuiLoadWorkerDone(w)

SpecGuiFair ==
    /\ InitGui /\ [][NextGui]_vars
    /\ WF_vars(GuiLoadWorkerStep)
    /\ WF_vars(GuiPollQueue)

----------------------------------------------------------------------------
(* The alerts tab of app_sql_client with notifications enabled:             *)
(* schedule_notify, check_high_alerts and its worker, poll_alert_queue.     *)
(* alerts holds the id_alert of the committed Alert rows with               *)
(* id_priority = 1, which other sessions insert at any time; notified       *)
(* counts, per alert, how often a worker put it on q_alerts.                *)

\* Alert rows of high priority the database comes to hold.
MaxAlerts == 3

\* Notification checks in one session of the window.
MaxChecks == 4

MaxOf(ids) == IF ids = {} THEN 0 ELSE CHOOSE a \in ids : \A b \in ids : b <= a

AlertsStart(stored) ==
    [pc |-> "alerts", alerts |-> 1..stored, last_high_id |-> NULL,
     notify_running |-> FALSE, workers |-> <<>>, q_alerts |-> <<>>,
     notified |-> [a \in 1..MaxAlerts |-> 0], baseline |-> NULL, shown |-> {}]

NotifyUnchanged ==
    UNCHANGED <<asteroid, orbit, class_orbital, load_error, collation, run, last,
                hdr, gen, call, neo_csv, mpcorb>>

\* Another session commits a high-priority alert; id_alert counts up.
AlertInserted ==
    /\ gui.pc = "alerts"
    /\ Cardinality(gui.alerts) < MaxAlerts
    /\ gui' = [gui EXCEPT !.alerts = @ \cup {MaxOf(gui.alerts) + 1}]
    /\ NotifyUnchanged

\* schedule_notify with the box ticked: check_high_alerts returns at once
\* while a check is running, else it sets the flag and starts a worker.
CheckHighAlerts ==
    /\ gui.pc = "alerts"
    /\ ~gui.notify_running
    /\ Len(gui.workers) < MaxChecks
    /\ gui' = [gui EXCEPT !.notify_running = TRUE,
                          !.workers = Append(@, [pc |-> "max"])]
    /\ NotifyUnchanged

\* The worker up to the first query: connect and SELECT MAX(id_alert); the
\* first check after ticking the box sets the baseline and returns.
NotifyWorkerMax(w) ==
    /\ gui.pc = "alerts"
    /\ w \in DOMAIN gui.workers /\ gui.workers[w].pc = "max"
    /\ \E raised \in BOOLEAN :
          LET max_id == MaxOf(gui.alerts)
          IN  gui' =
                IF raised
                THEN [gui EXCEPT !.workers[w] = [pc |-> "finally"],
                                 !.q_alerts = Append(@, [kind |-> "error", ids |-> {}])]
                ELSE IF gui.last_high_id = NULL
                THEN [gui EXCEPT !.workers[w] = [pc |-> "finally"],
                                 !.last_high_id = Some(max_id),
                                 !.baseline = Some(max_id),
                                 !.q_alerts = Append(@, [kind |-> "notify_init", ids |-> {}])]
                ELSE [gui EXCEPT !.workers[w] = [pc |-> "select", max_id |-> max_id]]
    /\ NotifyUnchanged

\* The second query, id_alert > last_high_id, and what follows it: when it
\* returned rows the mark moves to the max_id of the first query and the
\* rows go on the queue.
NotifyWorkerSelect(w) ==
    /\ gui.pc = "alerts"
    /\ w \in DOMAIN gui.workers /\ gui.workers[w].pc = "select"
    /\ \E raised \in BOOLEAN :
          LET new_rows == {a \in gui.alerts : a > gui.last_high_id[1]}
          IN  gui' =
                IF raised
                THEN [gui EXCEPT !.workers[w] = [pc |-> "finally"],
                                 !.q_alerts = Append(@, [kind |-> "error", ids |-> {}])]
                ELSE IF new_rows # {}
                THEN [gui EXCEPT !.workers[w] = [pc |-> "finally"],
                                 !.last_high_id = Some(gui.workers[w].max_id),
                                 !.notified = [a \in 1..MaxAlerts |->
                                                  IF a \in new_rows THEN @[a] + 1 ELSE @[a]],
                                 !.q_alerts = Append(@, [kind |-> "notify", ids |-> new_rows])]
                ELSE [gui EXCEPT !.workers[w] = [pc |-> "finally"]]
    /\ NotifyUnchanged

\* The finally clause of the worker.
NotifyWorkerFinally(w) ==
    /\ gui.pc = "alerts"
    /\ w \in DOMAIN gui.workers /\ gui.workers[w].pc = "finally"
    /\ gui' = [gui EXCEPT !.workers[w] = [pc |-> "finished"],
                          !.notify_running = FALSE]
    /\ NotifyUnchanged

\* poll_alert_queue: a message box per row of every "notify" message.
PollAlertQueue ==
    /\ gui.pc = "alerts"
    /\ gui.q_alerts # <<>>
    /\ gui' = [gui EXCEPT !.q_alerts = <<>>,
                          !.shown = @ \cup UNION {gui.q_alerts[k].ids : k \in DOMAIN gui.q_alerts}]
    /\ NotifyUnchanged

InitNotify ==
    /\ asteroid = {}
    /\ orbit = {}
    /\ class_orbital = {}
    /\ load_error = Some(0)
    /\ collation = TRUE
    /\ run = [r \in Runs |-> IdleRun]
    /\ last = [op |-> "none"]
    /\ hdr = [pc |-> "idle"]
    /\ gen = IdleGen
    /\ call = IdleCall
    /\ gui \in {AlertsStart(stored) : stored \in 0..1}
    /\ neo_csv = IdleNeoCsv
    /\ mpcorb = IdleMpcorb

NextNotify ==
    \/ AlertInserted
    \/ CheckHighAlerts
    \/ PollAlertQueue
    \/ \E w \in 1..MaxChecks :
          \/ NotifyWorkerMax(w)
          \/ NotifyWorkerSelect(w)
          \/ NotifyWorkerFinally(w)

SpecNotify == InitNotify /\ [][NextNotify]_vars

----------------------------------------------------------------------------
(* mpcorb_loader.load_mpcorb. The database is kept as what the loader's     *)
(* connection sees (orbit_tx, class_tx) and what is committed (orbit_db,    *)
(* class_db): autocommit is off, commit() makes the connection's view       *)
(* durable and rollback() returns the view to the committed state.          *)

\* Data rows of one MPCORB file.
MaxMpcorbRows == 4

Designations == {<<>>, <<"0", "1">>, <<"0", "2">>, <<"K", "2">>}

RECURSIVE DropZeros(_)
DropZeros(d) ==
    IF Len(d) > 1 /\ Head(d) = "0" THEN DropZeros(Tail(d)) ELSE d

\* The pdes values tried for a designation: the designation itself and,
\* when int() takes it, str(int(designation)).
PdesTry(designation) ==
    IF \A k \in DOMAIN designation : IsAsciiDigit(designation[k])
    THEN {designation, DropZeros(designation)}
    ELSE {designation}

MpcorbStart(pdes, stored, commit_every) ==
    [pc |-> "loop", pdes |-> pdes, commit_every |-> commit_every,
     orbit_db0 |-> stored, orbit_db |-> stored, orbit_tx |-> stored,
     class_db |-> {}, class_tx |-> {},
     rows |-> 0, processed |-> 0, inserted |-> 0, skipped_exists |-> 0,
     skipped_no_asteroid |-> 0, skipped_bad_row |-> 0, errors |-> 0,
     reported |-> NULL]

\* load_mpcorb up to the loop: an unreadable configuration raises, without
\* allow_link the function returns at once.
LoadMpcorbStart ==
    /\ mpcorb.pc = "idle"
    /\ \E cfg_ok \in BOOLEAN, allow_link \in BOOLEAN,
          pdes \in SUBSET {<<"1">>, <<"0", "2">>}, stored \in SUBSET {<<"MPC:", "0", "1">>},
          commit_every \in {2, 20000} :
          mpcorb' = IF ~cfg_ok THEN [pc |-> "raised"]
                    ELSE IF ~allow_link THEN [pc |-> "disabled"]
                    ELSE MpcorbStart(pdes, stored, commit_every)
    /\ UNCHANGED <<asteroid, orbit, class_orbital, load_error, collation, run, last,
                   hdr, gen, call, gui, neo_csv>>

\* The except clause: errors += 1 and conn.rollback().
MpcorbRollback(m) ==
    [m EXCEPT !.errors = @ + 1, !.orbit_tx = m.orbit_db, !.class_tx = m.class_db]

\* One iteration of the loop. fate says where the row raises: "derive" in
\* the epoch and element computations, "insert" when the database rejects
\* the INSERT INTO Orbit.
LoadMpcorbRow(bad_row, designation, orbit_type, fate) ==
    /\ mpcorb.pc = "loop"
    /\ mpcorb.rows < MaxMpcorbRows
    /\ LET m == [mpcorb EXCEPT !.rows = @ + 1]
           p == [m EXCEPT !.processed = @ + 1]
           orbit_id == <<"MPC:">> \o designation
           cls == IF orbit_type = <<>> THEN <<"UNK">> ELSE orbit_type
           c == [p EXCEPT !.class_tx = @ \cup {cls}]
           n == c.inserted + 1
           i == [c EXCEPT !.orbit_tx = @ \cup {orbit_id}, !.inserted = n]
       IN  mpcorb' =
             IF bad_row THEN [m EXCEPT !.skipped_bad_row = @ + 1]
             ELSE IF designation = <<>> THEN [p EXCEPT !.skipped_bad_row = @ + 1]
             ELSE IF orbit_id \in p.orbit_tx THEN [p EXCEPT !.skipped_exists = @ + 1]
             ELSE IF PdesTry(designation) \cap p.pdes = {}
                  THEN [p EXCEPT !.skipped_no_asteroid = @ + 1]
             ELSE IF fate = "derive" THEN MpcorbRollback(p)
             ELSE IF fate = "insert" THEN MpcorbRollback(c)
             ELSE IF n % i.commit_every = 0
                  THEN [i EXCEPT !.orbit_db = i.orbit_tx, !.class_db = i.class_tx]
             ELSE i
    /\ UNCHANGED <<asteroid, orbit, class_orbital, load_error, collation, run, last,
                   hdr, gen, call, gui, neo_csv>>

\* After the loop: the final commit, close, and the printed result.
LoadMpcorbFinish ==
    /\ mpcorb.pc = "loop"
    /\ mpcorb' = [mpcorb EXCEPT !.pc = "done",
                                !.orbit_db = mpcorb.orbit_tx,
                                !.class_db = mpcorb.class_tx,
                                !.reported = Some(mpcorb.inserted)]
    /\ UNCHANGED <<asteroid, orbit, class_orbital, load_error, collation, run, last,
                   hdr, gen, call, gui, neo_csv>>

LoadMpcorb ==
    \E bad_row \in BOOLEAN, designation \in Designations,
       orbit_type \in {<<>>, <<"MBA">>}, fate \in {"none", "derive", "insert"} :
        LoadMpcorbRow(bad_row, designation, orbit_type, fate)

InitMpcorb ==
    /\ asteroid = {}
    /\ orbit = {}
    /\ class_orbital = {}
    /\ load_error = Some(0)
    /\ collation = TRUE
    /\ run = [r \in Runs |-> IdleRun]
    /\ last = [op |-> "none"]
    /\ hdr = [pc |-> "idle"]
    /\ gen = IdleGen
    /\ call = IdleCall
    /\ gui = IdleGui
    /\ neo_csv = IdleNeoCsv
    /\ mpcorb = IdleMpcorb

NextMpcorb == LoadMpcorbStart \/ LoadMpcorb \/ LoadMpcorbFinish

SpecMpcorb == InitMpcorb /\ [][NextMpcorb]_vars

----------------------------------------------------------------------------
(* Properties.                                                             *)

\* C1: within one run of load_neo_mpcorb_csv, two rows whose id is equal
\* case-insensitively resolve to the same id_internal whatever their SPK-ids
\* are (also when one of them has no SPK-id), and two rows that carry only an
\* SPK-id and share it resolve to the same id_internal.
C1_SameKeySameIdentity ==
    \A x, y \in run[1].resolved :
        /\ (x[1] # NULL /\ y[1] # NULL /\ Lower(x[1][1]) = Lower(y[1][1]))
              => x[3] = y[3]
        /\ (x[1] = NULL /\ y[1] = NULL /\ x[2] # NULL /\ x[2] = y[2])
              => x[3] = y[3]

\* Two rows with ids that differ only in case, the first with an SPK-id and
\* the second without, were resolved and the first one minted a key.
C1_Witness ==
    /\ Len(run[1].minted) >= 1
    /\ \E x, y \in run[1].resolved :
          /\ x[1] # NULL /\ y[1] # NULL
          /\ x[1] # y[1] /\ Lower(x[1][1]) = Lower(y[1][1])
          /\ x[2] # NULL /\ y[2] = NULL
          /\ x[3] = Some(run[1].minted[1][1])

AstHeld(c, v) ==
    IF c \in AstTextCols \cup {"prefix"} THEN v # NULL /\ v # Some(EMPTY) ELSE v # NULL

\* C2: an upsert_asteroid call leaves every Asteroid row in place, keeps every
\* field that holds a value (non-null; for texts and flags also non-empty),
\* and a field it changes ends as the incoming value (or NULL, when the
\* incoming text is empty).
C2_Step ==
    last'.op = "upsert_asteroid" =>
        \A old \in asteroid : \E new \in asteroid' :
            /\ new["id_internal"] = old["id_internal"]
            /\ \A c \in AstCols :
                  /\ AstHeld(c, old[c]) => new[c] = old[c]
                  /\ new[c] # old[c] => new[c] \in {last'.p[c], NULL}
C2_UpsertKeepsSetFields == [][C2_Step]_vars

\* An update carrying diameter 99.0 found a row whose diameter is 10.0.
C2_Witness ==
    /\ last.op = "upsert_asteroid"
    /\ last.action = "update"
    /\ last.p["diameter"] = Some(F(99))
    /\ \E r \in asteroid : r["diameter"] = Some(F(10)) /\ r["full_name"] = Some(<<"X">>)

OrbHeld(c, v) ==
    IF c \in OrbTextCols THEN v # NULL /\ v # Some(EMPTY) ELSE v # NULL

\* C3: when insert_orbit_if_new updates an existing Orbit row (same owner or
\* no owner), every column that holds a value (non-null; for equinox and
\* class also non-empty) is unchanged, id_orbita included, and no row is
\* added or removed.
C3_Step ==
    (last'.op = "insert_orbit_if_new" /\ last'.branch = "update") =>
        /\ Cardinality(orbit') = Cardinality(orbit)
        /\ \A old \in orbit : \E new \in orbit' :
              /\ new["id_orbita"] = old["id_orbita"]
              /\ \A c \in OrbCols : OrbHeld(c, old[c]) => new[c] = old[c]
C3_OrbitUpdateFillsOnly == [][C3_Step]_vars

\* An update carrying rms 99.0 found a row whose rms is 10.0.
C3_Witness ==
    /\ last.op = "insert_orbit_if_new"
    /\ last.branch = "update"
    /\ last.p["rms"] = Some(F(99))
    /\ \E r \in orbit : r["rms"] = Some(F(10)) /\ r["sigma_e"] = Some(F(99))

\* C4: no insert_orbit_if_new call changes the owner of an Orbit row that has
\* one; a call that presents an existing id_orbita with a different
\* id_internal changes nothing in Orbit, returns False and does not raise.
C4_Step ==
    last'.op = "insert_orbit_if_new" =>
        /\ \A old \in orbit : \E new \in orbit' :
              /\ new["id_orbita"] = old["id_orbita"]
              /\ old["id_internal"] # NULL => new["id_internal"] = old["id_internal"]
        /\ (\E r \in orbit :
               /\ SqlTextEq(collation, r["id_orbita"], last'.p["id_orbita"])
               /\ r["id_internal"] # NULL
               /\ last'.p["id_internal"] # NULL
               /\ r["id_internal"] # last'.p["id_internal"])
           => (orbit' = orbit /\ ~last'.inserted /\ last'.branch = "skip")
C4_OrbitOwnerNeverReassigned == [][C4_Step]_vars

\* A call for asteroid 2 with elements found the orbit owned by asteroid 1.
C4_Witness ==
    /\ last.op = "insert_orbit_if_new"
    /\ last.branch = "skip"
    /\ last.p["id_internal"] = Some(2)
    /\ last.p["e"] # NULL
    /\ \E r \in orbit : r["id_internal"] = Some(1) /\ r["sigma_e"] = NULL

\* C7: the counter starts at (largest id_internal in Asteroid) + 1, never
\* decreases, and every key minted is larger than every key seeded from the
\* database and every key minted before it in the run.
C7_Step ==
    LET o == run[1]
        n == run'[1]
        stored == {r["id_internal"][1] : r \in asteroid}
    IN  /\ (o.pc = "idle" /\ n.pc = "loop") =>
              /\ \A k \in stored : n.next_id > k
              /\ n.next_id = 1 \/ (n.next_id - 1) \in stored
              /\ n.seed_ids = stored
        /\ o.pc = "loop" => n.next_id >= o.next_id
        /\ (o.pc = "loop" /\ Len(n.minted) > Len(o.minted)) =>
              LET k == n.minted[Len(n.minted)][1]
              IN  /\ k = o.next_id
                  /\ \A sd \in n.seed_ids : k > sd
                  /\ \A j \in 1..Len(o.minted) : k > o.minted[j][1]
C7_CounterMonotonic == [][C7_Step]_vars

\* Two keys were minted in a run that started from a database with asteroids.
C7_Witness ==
    /\ run[1].seed_ids # {}
    /\ Len(run[1].minted) = 2
    /\ run[1].minted[1][2] # run[1].minted[2][2]

\* C5: once both rows of the two-row file have gone into the empty database
\* there is exactly one Asteroid row, its diameter is the one of row 2, and
\* there is exactly one Orbit row, the one of row 1.
C5_OneAsteroidOneOrbit ==
    (last.op = "row" /\ run[1].rows = 2) =>
        /\ Cardinality(asteroid) = 1
        /\ \A r \in asteroid : r["diameter"] = last.diameter
        /\ Cardinality(orbit) = 1
        /\ \A o \in orbit : o["a"] = Some(<<5, 2>>)

\* C6: a row whose processing raised leaves the run in its loop with the
\* error counted, whatever log_error did.
C6_RowFailureNeverAborts ==
    (last.op = "row" /\ last.raised) =>
        /\ run[1].pc = "loop"
        /\ run[1].errors >= 1

\* C8: a run takes its keys from its own counter alone: the k-th key it mints
\* is its seed + k - 1 whatever the other run has stored meanwhile, so two
\* runs seeded from the same Asteroid table mint the same keys.
C8_RunsMintFromOwnCounter ==
    /\ \A r \in Runs : \A k \in 1..Len(run[r].minted) :
          run[r].minted[k][1] = run[r].seed_next + k - 1
    /\ \A r1, r2 \in Runs :
          (run[r1].pc # "idle" /\ run[r2].pc # "idle"
              /\ run[r1].seed_ids = run[r2].seed_ids)
          => \A k \in 1..Len(run[r1].minted) :
                k <= Len(run[r2].minted) => run[r1].minted[k][1] = run[r2].minted[k][1]

\* Both runs, seeded from the same table, minted the same key for different
\* objects.
C8_Witness ==
    /\ run[1].seed_ids = run[2].seed_ids
    /\ Len(run[1].minted) >= 1
    /\ Len(run[2].minted) >= 1
    /\ run[1].minted[1][1] = run[2].minted[1][1]
    /\ run[1].minted[1][2] # run[2].minted[1][2]

C10_HeaderNamesDistinct ==
    hdr.pc = "done" =>
        /\ Len(hdr.out) = Len(hdr.fields)
        /\ \A i, j \in DOMAIN hdr.out : i # j => hdr.out[i] # hdr.out[j]


\* C11: in generate_sql.build_data_from_csv, two rows of one file whose id is
\* equal case-insensitively are assigned the same id_internal, also when one
\* of them has an SPK-id and the other has none.
C11_GenSameIdSameIdentity ==
    gen.pc # "idle" =>
        \A x, y \in gen.resolved :
            (x[1] # EMPTY /\ Lower(x[1]) = Lower(y[1])) => x[3] = y[3]

\* C12: every Orbit row belongs to exactly one asteroid: its id_internal is
\* not null and is the id_internal of a row of Asteroid, whatever rows
\* load_neo_mpcorb_csv has read, rows with neither an id nor an SPK-id
\* included.
C12_OrbitBelongsToAsteroid ==
    \A o \in orbit :
        /\ o["id_internal"] # NULL
        /\ \E a \in asteroid : a["id_internal"] = o["id_internal"]

C13_Step ==
    /\ \A a \in asteroid' \ asteroid : a["neo_id"] # NULL \/ a["spkid"] # NULL
    /\ (/\ run'[1].rows = run[1].rows + 1
        /\ last'.op = "row" /\ last'.neo_id = NULL /\ last'.spkid = NULL)
          => /\ asteroid' = asteroid
             /\ run'[1].next_id = run[1].next_id
             /\ run'[1].minted = run[1].minted
             /\ run'[1].neo_map = run[1].neo_map
             /\ run'[1].spk_map = run[1].spk_map

\* C13: every Asteroid row load_neo_mpcorb_csv inserts has a neo_id or an
\* spkid; a row with neither key mints no surrogate key, leaves the counter
\* and the maps as they were and inserts or updates no Asteroid row.
C13_KeylessRowTouchesNoAsteroid == [][C13_Step]_vars

\* A row with neither key has just been processed in a run that inserted an
\* asteroid for an earlier row.
C13_Witness ==
    /\ last.op = "row" /\ last.neo_id = NULL /\ last.spkid = NULL
    /\ last.id = NULL
    /\ run[1].missing_keys >= 1
    /\ run[1].inserted_ast >= 1

\* Rows of Class_Orbital that the step added.
NewClasses == class_orbital' \ class_orbital

\* The step is one iteration of the row loop of load_neo_mpcorb_csv.
IsRowStep == run'[1].rows = run[1].rows + 1 /\ last'.op = "row"

\* The step is one iteration of the row loop of build_data_from_csv.
IsGenStep == gen.pc = "rows" /\ gen'.pc # "returned"

\* Rows once stored stay as they are, and a row is added only for a code
\* the table does not hold yet.
ClassKept ==
    /\ class_orbital \subseteq class_orbital'
    /\ \A r \in NewClasses :
          /\ r.class # EMPTY
          /\ ~\E x \in class_orbital : SqlTextEq(collation, Some(x.class), Some(r.class))
    /\ IsGenStep =>
          /\ \A k \in DOMAIN gen.class_map :
                k \in DOMAIN gen'.class_map /\ gen'.class_map[k] = gen.class_map[k]
          /\ DOMAIN gen'.class_map \ DOMAIN gen.class_map \subseteq {gen'.step.cls} \ {EMPTY}

C14_OrigStep ==
    /\ ClassKept
    /\ (IsRowStep /\ last'.cls = EMPTY) => class_orbital' = class_orbital
    /\ (IsGenStep /\ gen'.step.cls = EMPTY) => gen'.class_map = gen.class_map

\* C14 as stated: Class_Orbital gets a row for a class code only the first
\* time the code is seen, a stored description never changes, and a row
\* with an empty class code writes nothing.
C14_ClassWrittenOnce == [][C14_OrigStep]_vars

C14_Step ==
    /\ ClassKept
    /\ IsRowStep =>
          /\ last'.cls # EMPTY => NewClasses \subseteq {[class |-> last'.cls,
                 class_description |-> IF last'.cls_desc # EMPTY THEN last'.cls_desc
                                       ELSE last'.cls]}
          /\ last'.cls = EMPTY =>
                /\ NewClasses \subseteq {NeaClass}
                /\ NewClasses # {} => last'.branch = "insert"
    /\ (IsGenStep /\ gen'.step.cls = EMPTY) => gen'.class_map = gen.class_map

\* C14: Class_Orbital gets a row for a class code only the first time the
\* code is seen and a stored description never changes; for a row with an
\* empty class code upsert_class writes nothing, and the only row that can
\* appear is the default class NEA, on the insert of the row's orbit.
C14_ClassWrittenOnceOrDefault == [][C14_Step]_vars

\* A second row carried a code already stored with another description, and
\* the table still holds the first description only.
C14_Witness ==
    /\ last.op = "row" /\ run[1].rows = 2 /\ last.cls = <<"A">>
    /\ last.cls_desc = <<"y">>
    /\ [class |-> <<"A">>, class_description |-> <<"x">>] \in class_orbital
    /\ \A r \in class_orbital : r.class = <<"A">> => r.class_description = <<"x">>

TpCalDefault(g) == IF g.epoch_cal # NULL THEN g.epoch_cal ELSE Some(Today)

\* The derivation produced a value for field t: the value after it is not
\* the one the row supplied (for tp_cal, nor the default).
Produced(t) ==
    IF t = "tp_cal"
    THEN call.out[t] # (IF call.given[t] # NULL THEN call.given[t]
                        ELSE TpCalDefault(call.given))
    ELSE call.out[t] # call.given[t]

\* The inputs the derivation of field t requires are present (n not zero).
InputsPresent(t) ==
    LET g == call.given
    IN  CASE t \in {"q", "ad"} -> g.a # NULL /\ g.e # NULL
          [] t \in {"per", "per_y"} -> Truthy(g.n)
          [] t \in {"tp", "tp_cal"} -> g.epoch # NULL /\ Truthy(g.n) /\ g.ma # NULL

\* The field whose absence lets the derivation of t run.
TargetOf(t) == CASE t = "per_y" -> "per" [] t = "tp_cal" -> "tp" [] OTHER -> t

Derived == {"q", "ad", "per", "per_y", "tp", "tp_cal"}

\* C16 as stated: a derived value is produced only for a field the row left
\* absent and only when all its inputs are present; with an input absent or
\* n zero an absent field stays absent.
C16_DerivedOnlyWhenAbsent ==
    (call.pc = "done" /\ call.kind = "row" /\ ~call.raises) =>
        \A t \in Derived :
            /\ Produced(t) => call.given[t] = NULL /\ InputsPresent(t)
            /\ (call.given[t] = NULL /\ ~InputsPresent(t)) => ~Produced(t)

\* C16 (amended): q, ad, per and tp are derived only when the row left them
\* absent and their inputs are present; per_y changes only when per is
\* derived and tp_cal only when tp is derived, whether or not the row
\* supplied them; with an input absent or n zero nothing is derived, so no
\* division has a zero divisor.
C16_DerivedOnlyWhenTargetAbsent ==
    (call.pc = "done" /\ call.kind = "row" /\ ~call.raises) =>
        \A t \in Derived :
            /\ Produced(t) => call.given[TargetOf(t)] = NULL /\ InputsPresent(t)
            /\ ~InputsPresent(t) => ~Produced(t)
            /\ (t \in {"per", "tp"} /\ Produced(t)) => call.given.n[1][1] # 0

\* The row supplied per_y but not per, n is present, and the derivation
\* replaced per_y along with per.
C16_Witness ==
    /\ call.pc = "done" /\ call.kind = "row" /\ ~call.raises
    /\ call.given.per = NULL /\ call.given.per_y # NULL /\ Truthy(call.given.n)
    /\ Produced("per") /\ Produced("per_y") /\ Produced("q")

\* The month or day a character of a packed date stands for: 1-9 for the
\* digits "1" to "9", 10 for A, 11 for B, ...; 0 when it stands for none.
PackedValue(ch) ==
    IF \E k \in 2..10 : AsciiDigits[k] = ch
    THEN (CHOOSE k \in 2..10 : AsciiDigits[k] = ch) - 1
    ELSE IF \E k \in DOMAIN Alphabet : Alphabet[k] = ch
    THEN 9 + (CHOOSE k \in DOMAIN Alphabet : Alphabet[k] = ch)
    ELSE 0

\* The date a string denotes as a packed epoch, NULL when it denotes none.
PackedDenotes(s) ==
    LET t == Strip(s)
    IN  IF /\ Len(t) = 5
           /\ t[1] \in {"I", "J", "K"}
           /\ IsDigit(t[2]) /\ IsDigit(t[3])
           /\ PackedValue(t[4]) \in 1..12
           /\ PackedValue(t[5]) >= 1
        THEN LET digit(ch) == IF ch = "sup2" THEN 2 ELSE DigitVal(ch)
                 y == (CASE t[1] = "I" -> 1800 [] t[1] = "J" -> 1900 [] OTHER -> 2000)
                      + 10 * digit(t[2]) + digit(t[3])
             IN  IF PackedValue(t[5]) <= DaysInMonth(y, PackedValue(t[4]))
                 THEN Some(<<y, PackedValue(t[4]), PackedValue(t[5])>>)
                 ELSE NULL
        ELSE NULL

\* C17: mpc_packed_to_date never raises; it returns the date when the
\* trimmed string has 5 characters, a century letter I, J or K, two digits,
\* a month character for 1..12 and a day character for a day of that month,
\* and absence for every other string.
C17_PackedDateTotal ==
    (call.pc = "done" /\ call.kind = "packed") =>
        /\ ~call.raises
        /\ call.out = PackedDenotes(call.arg)

\* C18 as stated: mjd_to_date(date_to_mjd(d)) = d for every date d from
\* 1858-11-17 on, which maps to 0, and date_to_mjd(mjd_to_date(m)) = m for
\* every day count m >= 0.
C18_MjdInverses ==
    call.pc = "done" =>
        /\ call.kind = "date" =>
              /\ ~call.raises /\ call.out = Some(call.arg)
              /\ call.arg = Mjd0 => call.mid = Some(F(0))
        /\ call.kind = "mjd" => ~call.raises /\ call.out = Some(F(call.arg))

\* C18 (amended): the same, for the day counts m from 0 to that of
\* 9999-12-31; for a larger m the round trip raises.
C18_MjdInversesInRange ==
    call.pc = "done" =>
        /\ call.kind = "date" =>
              /\ ~call.raises /\ call.out = Some(call.arg)
              /\ call.arg = Mjd0 => call.mid = Some(F(0))
        /\ (call.kind = "mjd" /\ call.arg <= LastMjd) =>
              /\ ~call.raises /\ call.out = Some(F(call.arg))
              /\ call.arg = LastMjd => call.mid = Some(<<9999, 12, 31>>)
        /\ (call.kind = "mjd" /\ call.arg > LastMjd) => call.raises

\* The round trip of day count 60000 went through 2023-02-25 and came back
\* to 60000.
C18_Witness ==
    /\ call.pc = "done" /\ call.kind = "mjd" /\ ~call.raises
    /\ call.mid = Some(<<2023, 2, 25>>) /\ call.out = Some(F(60000))

\* C19: no worker thread uses a widget or a message box; whatever a worker
\* produces reaches the window through the queue and the poll function of
\* the main thread.
C19_OnlyMainTouchesWidgets ==
    gui.pc = "mainloop" => \A x \in gui.touched : x[1] = "main"

\* C20: an iteration of load_neo_csv (insercao_csv) leaves every Asteroid row
\* in place and keeps every field of it that holds a value (non-null; for
\* texts and flags also non-empty).
C20_Step ==
    (neo_csv.pc = "loop" /\ neo_csv'.step.op = "row") =>
        \A old \in asteroid : \E new \in asteroid' :
            /\ new["id_internal"] = old["id_internal"]
            /\ \A c \in AstCols : AstHeld(c, old[c]) => new[c] = old[c]
C20_NeoCsvKeepsSetFields == [][C20_Step]_vars

\* C21 (as stated): when the header gives no delimiter, detect_delimiter
\* returns a delimiter whose count over the first five non-blank lines of the
\* file is the highest of the four.
C21_HighestCount ==
    (call.pc = "done" /\ call.kind = "file" /\ call.fallback) =>
        LET lines == FirstLines(SelectSeq(call.arg, NonBlankLine), 5)
        IN  \A j \in DOMAIN Delimiters :
               CountInLines(lines, Delimiters[j]) <= CountInLines(lines, call.out[1])

\* C21: when the header gives no delimiter, detect_delimiter looks at the
\* non-blank lines among the first five lines of the file: none gives ";";
\* else the first of them decides when it holds a semicolon (and no more
\* commas than semicolons), a tab or a comma, in that order; else the result
\* is the first of ";", ",", tab, "|" with the highest count over those lines.
C21_HeuristicsThenCount ==
    (call.pc = "done" /\ call.kind = "file" /\ call.fallback) =>
        LET idx == {k \in 1..5 : k <= Len(call.arg) /\ ~IsBlankLine(call.arg[k])}
            n(ch) == Cardinality(UNION {{<<k, i>> : i \in {j \in DOMAIN call.arg[k] :
                                                              call.arg[k][j] = ch}} : k \in idx})
            first == call.arg[CHOOSE k \in idx : \A j \in idx : k <= j]
            out == call.out[1]
            pos(ch) == CHOOSE k \in DOMAIN Delimiters : Delimiters[k] = ch
        IN  /\ idx = {} => out = ";"
            /\ idx # {} =>
                 /\ (";" \in Range(first) /\ CountIn(first, ";") >= CountIn(first, ","))
                       => out = ";"
                 /\ (~(";" \in Range(first) /\ CountIn(first, ";") >= CountIn(first, ","))
                     /\ "TAB" \in Range(first)) => out = "TAB"
                 /\ (~(";" \in Range(first) /\ CountIn(first, ";") >= CountIn(first, ","))
                     /\ "TAB" \notin Range(first) /\ "," \in Range(first)) => out = ","
                 /\ (Range(first) \cap {";", "TAB", ","} = {}) =>
                       \A j \in DOMAIN Delimiters :
                          /\ n(Delimiters[j]) <= n(out)
                          /\ j < pos(out) => n(Delimiters[j]) < n(out)

\* The sixth line of a file is the only one with a delimiter, and the count
\* decided over the first five.
C21_Witness ==
    /\ call.pc = "done" /\ call.kind = "file" /\ call.fallback
    /\ Len(call.arg) = 6
    /\ call.arg[1] = <<"x", "|", "x">>
    /\ call.arg[3] = EMPTY
    /\ call.arg[6] = <<"x", ",", "x", ",", "x">>
    /\ call.out = Some("|")

RECURSIVE SumCounts(_)
SumCounts(counts) ==
    IF counts = <<>> THEN 0 ELSE Head(counts)[2] + SumCounts(Tail(counts))

\* C22: throughout a run the error counter is the sum of the counts per
\* message, the samples are the first min(errors, 5) failures in row order,
\* and the report names at most five messages, none less frequent than a
\* message it leaves out.
C22_ErrorReportConsistent ==
    LET rn == run[1]
        few == IF rn.errors < 5 THEN rn.errors ELSE 5
    IN  /\ rn.errors = SumCounts(rn.error_counts)
        /\ Len(rn.failed) = rn.errors
        /\ rn.error_samples = SubSeq(rn.failed, 1, few)
        /\ rn.report.printed =>
              /\ Len(rn.report.top) <= 5
              /\ rn.report.samples = SubSeq(rn.failed, 1, few)
              /\ \A i \in DOMAIN rn.report.top :
                    /\ \E k \in DOMAIN rn.error_counts :
                          rn.error_counts[k] = rn.report.top[i]
                    /\ \A j \in DOMAIN rn.report.top :
                          i < j => rn.report.top[i][2] >= rn.report.top[j][2]
              /\ \A k \in DOMAIN rn.error_counts :
                    \/ \E i \in DOMAIN rn.report.top : rn.report.top[i] = rn.error_counts[k]
                    \/ /\ Len(rn.report.top) = 5
                       /\ \A i \in DOMAIN rn.report.top :
                             rn.report.top[i][2] >= rn.error_counts[k][2]

\* Six rows failed, each with a message of its own; the report holds five
\* samples and five messages, the first message of the run on top.
C22_Witness ==
    /\ run[1].pc = "done"
    /\ run[1].errors = 6
    /\ Len(run[1].error_counts) = 6
    /\ Len(run[1].report.samples) = 5
    /\ Len(run[1].report.top) = 5
    /\ run[1].report.top[1][1] = <<"e1">>

\* C23: a row with a key writes to no Asteroid row but the one whose
\* id_internal is the surrogate key the identity resolver returned for it.
C23_Step ==
    (last'.op = "row" /\ last'.r = 1 /\ run'[1].rows = run[1].rows + 1
     /\ last'.id # NULL /\ last'.action \in {"insert", "update"}) =>
        \A new \in asteroid' \ asteroid : new["id_internal"] = last'.id
C23_UpsertWritesResolvedAsteroid == [][C23_Step]_vars

\* C24: a row whose processing raises leaves the three tables, both identity
\* maps and both counters as they were before the row.
C24_Step ==
    (last'.op = "row" /\ last'.r = 1 /\ run'[1].rows = run[1].rows + 1 /\ last'.raised) =>
        /\ class_orbital' = class_orbital
        /\ asteroid' = asteroid
        /\ orbit' = orbit
        /\ run'[1].neo_map = run[1].neo_map
        /\ run'[1].spk_map = run[1].spk_map
        /\ run'[1].next_id = run[1].next_id
        /\ run'[1].mpc_seq = run[1].mpc_seq
C24_FailedRowHasNoEffect == [][C24_Step]_vars

\* C25: the second import of a file adds no Asteroid row and no Orbit row and
\* changes no column of a row the first import left.
C25_Step ==
    (run[1].pc = "done" /\ last'.op = "row" /\ last'.r = 2) =>
        /\ asteroid' = asteroid
        /\ orbit' = orbit
C25_SecondImportChangesNothing == [][C25_Step]_vars

\* C26: a row without orbit_id gets an orbit id that no Orbit row holds yet
\* (stored before the run, synthesized earlier, or supplied by an earlier
\* row), so the row inserts an Orbit row and updates none.
C26_Step ==
    (last'.op = "row" /\ last'.r = 1 /\ run'[1].rows = run[1].rows + 1
     /\ last'.synth /\ last'.stage = "end") =>
        /\ last'.branch = "insert"
        /\ \A o \in orbit : ~SqlTextEq(collation, o["id_orbita"], Some(last'.orbit_id))
C26_SynthesizedIdIsNew == [][C26_Step]_vars

\* The import workers of app_sql_client that have statements left to run.
LiveImportWorkers ==
    IF gui.tool = "sql_client"
    THEN {w \in DOMAIN gui.workers : gui.workers[w] # "finished"}
    ELSE {}

\* C27: at most one CSV-import worker is alive; while one is alive, or its
\* "__DONE__" is still on the queue, the run button is disabled; and the
\* button goes back to normal only in a poll_queue step that takes the
\* "__DONE__" of the last worker started off the queue.
C27_ButtonStep ==
    (gui.run_button = "disabled" /\ gui'.run_button = "normal") =>
        /\ \E k \in DOMAIN gui.q : gui.q[k] = "__DONE__"
        /\ gui'.q = <<>>
        /\ gui.workers[Len(gui.workers)] = "finished"
ImportStream == gui.applied \o gui.q

ImportStarts == {k \in DOMAIN ImportStream : ImportStream[k] = "[INFO]"}

\* The last position of the import that on_run started at position k.
ImportEnd(k) ==
    LET later == {j \in ImportStarts : j > k}
    IN  IF later = {} THEN Len(ImportStream)
        ELSE (CHOOSE j \in later : \A i \in later : j <= i) - 1

ImportDone(k) == {j \in k..ImportEnd(k) : ImportStream[j] = "__DONE__"}

\* The worker of the import started at position k.
ImportWorker(k) == Cardinality({j \in ImportStarts : j <= k})

\* C28: an import that on_run started ends with the button re-enabled; its
\* worker puts "__DONE__" once, when it is finished and after everything
\* else it put, nothing it put is lost, and the main thread applies the
\* messages in that order, the status "finished" last.
C28_ImportOrder ==
    gui.tool = "sql_client" =>
        /\ Cardinality(ImportStarts) = Len(gui.workers)
        /\ \A k \in ImportStarts :
              /\ Cardinality(ImportDone(k)) <= 1
              /\ \A j \in ImportDone(k) : j = ImportEnd(k)
              /\ (ImportDone(k) # {}) <=> (gui.workers[ImportWorker(k)] = "finished")
        /\ \A k \in ImportStarts :
              ImportEnd(k) = Len(ImportStream) =>
                  Cardinality({j \in k..ImportEnd(k) : ImportStream[j] = "output"}) = gui.out
        /\ (gui.status = "finished") <=>
              (gui.applied # <<>> /\ gui.applied[Len(gui.applied)] = "__DONE__")
        /\ (gui.status = "finished") <=> (gui.applied # <<>> /\ gui.run_button = "normal")
C29_NotifiedOnce ==
    gui.pc = "alerts" =>
        /\ Cardinality({w \in DOMAIN gui.workers : gui.workers[w].pc # "finished"}) <= 1
        /\ \A a \in 1..MaxAlerts : gui.notified[a] <= 1
        /\ gui.baseline # NULL =>
              \A a \in gui.alerts :
                  /\ a <= gui.baseline[1] => gui.notified[a] = 0
                  /\ (a > gui.baseline[1] /\ a <= gui.last_high_id[1]) => gui.notified[a] = 1

\* C30: the number of inserted orbits that load_mpcorb prints is the number
\* of Orbit rows the run left committed.
C30_ReportedEqualsCommitted ==
    mpcorb.pc = "done" =>
        mpcorb.reported = Some(Cardinality(mpcorb.orbit_db \ mpcorb.orbit_db0))

====
